---------------------------- MODULE Spec2Model ----------------------------
(***************************************************************************)
(* CarMotorControl: the coordination layer above two PWM motor units       *)
(* (rightCarMotor, leftCarMotor) of a differential-drive car.              *)
(*                                                                         *)
(* The car object is modelled as the set of its fields; every public       *)
(* method is one action.  Methods are written as operators on a record     *)
(* `c' holding the fields, so that a method calling another method is an   *)
(* operator applied to the result of another operator, in program order.   *)
(* The record also carries `log', the ordered list of the externally       *)
(* visible effects of the running call (commands issued to the two motor   *)
(* units, delays, writes of CarDirectionOrBrakeMode), and `ret', the       *)
(* value the last bool method returned.                                    *)
(*                                                                         *)
(* The single motor unit (PWMDcMotor / EncoderMotor) and the IMU are not   *)
(* part of CarMotorControl.cpp; the Motor* operators model them from the   *)
(* interface description.                                                  *)
(***************************************************************************)
EXTENDS Integers, Sequences, FiniteSets, TLC

VARIABLES
    feedback,                        \* build configuration: which of USE_MPU6050_IMU / USE_ENCODER_MOTOR_CONTROL are defined
    CarDirectionOrBrakeMode,
    rightCarMotor,
    leftCarMotor,
    CarRequestedRotationDegrees,
    CarRequestedDistanceMillimeter,
    CarTurnAngleHalfDegreesFromIMU,
    CarSpeedCmPerSecondFromIMU,
    CarDistanceMillimeterFromIMU,
    FactorDegreeToMillimeter,        \* in tenths of a millimeter per degree
    MotorControlValuesHaveChanged,
    call,                            \* the last call: method, arguments, state at entry, return value, effects
    pc,                              \* "idle", or "waitUntilStopped" / "calibrate" while that loop runs
    nCalls,
    tSpeed,                          \* calibrate: the speed of the sweep
    tMotorMovingCount                \* calibrate: the number of units found moving

vars == <<feedback, CarDirectionOrBrakeMode, rightCarMotor, leftCarMotor,
          CarRequestedRotationDegrees, CarRequestedDistanceMillimeter,
          CarTurnAngleHalfDegreesFromIMU, CarSpeedCmPerSecondFromIMU,
          CarDistanceMillimeterFromIMU, FactorDegreeToMillimeter,
          MotorControlValuesHaveChanged, call, pc, nCalls, tSpeed, tMotorMovingCount>>

---------------------------------------------------------------------------
(* Bounds of the model.                                                    *)

\* number of method calls in one behaviour
MaxCalls == 2

---------------------------------------------------------------------------
(* Values.                                                                 *)

DIRECTION_FORWARD  == "forward"
DIRECTION_BACKWARD == "backward"
MOTOR_BRAKE        == "brake"
MOTOR_RELEASE      == "release"
STOP_MODE_KEEP     == "keep"

Directions == {DIRECTION_FORWARD, DIRECTION_BACKWARD}
StopModes  == {MOTOR_BRAKE, MOTOR_RELEASE}
Modes      == Directions \cup StopModes

MOTOR_STATE_STOPPED     == "stopped"
MOTOR_STATE_START       == "start"
MOTOR_STATE_RAMP_UP     == "ramp-up"
MOTOR_STATE_DRIVE_SPEED == "drive-speed"
MOTOR_STATE_RAMP_DOWN   == "ramp-down"

TURN_FORWARD  == "turn-forward"
TURN_BACKWARD == "turn-backward"
TURN_IN_PLACE == "turn-in-place"
TurnDirections == {TURN_FORWARD, TURN_BACKWARD, TURN_IN_PLACE}

\* the four builds of the file
Feedbacks == {"none", "encoder", "imu", "imu+encoder"}
UseIMU     == feedback \in {"imu", "imu+encoder"}
UseEncoder == feedback \in {"encoder", "imu+encoder"}

Max(a, b) == IF a >= b THEN a ELSE b
Abs(a)    == IF a >= 0 THEN a ELSE -a

\* conversions to the fixed-width types of the AVR build
ToUint8(v)  == v % 256
ToInt8(v)   == ((v + 128) % 256) - 128
ToUint16(v) == v % 65536


---------------------------------------------------------------------------
(* One effect of a call, in the order the code produces them.              *)
(*   ev   : "stop" | "delay" | "mode" | a motor unit's method name         *)
(*   unit : "car" | "right" | "left" | "imu"                               *)
(*   n    : a speed or a number of milliseconds                            *)
(*   m    : a direction or stop mode                                       *)
(*   d    : a distance in millimeter                                       *)
Ev(ev, unit, n, m, d) == [ev |-> ev, unit |-> unit, n |-> n, m |-> m, d |-> d]

---------------------------------------------------------------------------
(* The motor unit (PWMDcMotor): not part of CarMotorControl.cpp.           *)

\* width of the SpeedCompensation field: a signed bias
WrapCompensation(v) == ToInt8(v)

DefaultStartSpeed == 45
DefaultDriveSpeed == 80

MotorInit ==
    [CurrentSpeed |-> 0, TargetSpeed |-> 0,
     StartSpeed |-> DefaultStartSpeed, DriveSpeed |-> DefaultDriveSpeed,
     SpeedCompensation |-> 0,
     MotorRampState |-> MOTOR_STATE_STOPPED,
     CurrentDirectionOrBrakeMode |-> MOTOR_RELEASE, StopMode |-> MOTOR_RELEASE,
     CheckDistance |-> FALSE, EncoderCount |-> 0]

\* stop(aStopMode): speed 0, ramp state stopped; STOP_MODE_KEEP takes the unit's StopMode
MotorStop(m, aStopMode) ==
    [m EXCEPT !.CurrentSpeed = 0, !.TargetSpeed = 0,
              !.MotorRampState = MOTOR_STATE_STOPPED,
              !.CheckDistance = FALSE,
              !.CurrentDirectionOrBrakeMode =
                  IF aStopMode = STOP_MODE_KEEP THEN m.StopMode ELSE aStopMode]

MotorSetStopMode(m, aStopMode) == [m EXCEPT !.StopMode = aStopMode]

\* setSpeed(speed, direction): direct control, the ramp state is not touched
MotorSetSpeed(m, aRequestedSpeed, aRequestedDirection) ==
    IF aRequestedSpeed = 0
    THEN MotorStop(m, STOP_MODE_KEEP)
    ELSE [m EXCEPT !.CurrentSpeed = aRequestedSpeed,
                   !.CurrentDirectionOrBrakeMode = aRequestedDirection]

\* requested speed with the unit's own compensation applied, kept in 0..255
MotorCompensatedSpeed(m, aRequestedSpeed) ==
    LET v == aRequestedSpeed + m.SpeedCompensation
    IN  IF v < 0 THEN 0 ELSE IF v > 255 THEN 255 ELSE v

\* setSpeedCompensated(speed, direction): sets speed, state and flags
MotorSetSpeedCompensated(m, aRequestedSpeed, aRequestedDirection) ==
    IF aRequestedSpeed = 0
    THEN MotorStop(m, STOP_MODE_KEEP)
    ELSE [m EXCEPT !.CurrentSpeed = MotorCompensatedSpeed(m, aRequestedSpeed),
                   !.TargetSpeed = aRequestedSpeed,
                   !.MotorRampState = MOTOR_STATE_DRIVE_SPEED,
                   !.CheckDistance = FALSE,
                   !.CurrentDirectionOrBrakeMode = aRequestedDirection]

\* changeSpeedCompensated(speed): new speed, direction kept
MotorChangeSpeedCompensated(m, aRequestedSpeed) ==
    IF aRequestedSpeed = 0
    THEN MotorStop(m, STOP_MODE_KEEP)
    ELSE [m EXCEPT !.CurrentSpeed = MotorCompensatedSpeed(m, aRequestedSpeed),
                   !.TargetSpeed = aRequestedSpeed]

\* setSpeed(int): the sign is the direction
MotorSetSpeedSigned(m, aRequestedSpeed) ==
    IF aRequestedSpeed < 0
    THEN MotorSetSpeed(m, ToUint8(-aRequestedSpeed), DIRECTION_BACKWARD)
    ELSE MotorSetSpeed(m, ToUint8(aRequestedSpeed), DIRECTION_FORWARD)

MotorSetSpeedCompensatedSigned(m, aRequestedSpeed) ==
    IF aRequestedSpeed < 0
    THEN MotorSetSpeedCompensated(m, ToUint8(-aRequestedSpeed), DIRECTION_BACKWARD)
    ELSE MotorSetSpeedCompensated(m, ToUint8(aRequestedSpeed), DIRECTION_FORWARD)

\* startRampUp(speed, direction): the ramp begins at the next update
MotorStartRampUp(m, aRequestedSpeed, aRequestedDirection) ==
    IF aRequestedSpeed = 0
    THEN MotorStop(m, STOP_MODE_KEEP)
    ELSE [m EXCEPT !.TargetSpeed = aRequestedSpeed,
                   !.MotorRampState = MOTOR_STATE_START,
                   !.CurrentDirectionOrBrakeMode = aRequestedDirection]

\* startRampDown(): a unit at drive speed or ramping up begins to decelerate
MotorStartRampDown(m) ==
    IF m.MotorRampState \in {MOTOR_STATE_RAMP_UP, MOTOR_STATE_DRIVE_SPEED}
    THEN [m EXCEPT !.MotorRampState = MOTOR_STATE_RAMP_DOWN]
    ELSE m

\* startGoDistanceMillimeter(speed, distance, direction): distance 0 starts nothing
MotorStartGoDistance(m, aRequestedSpeed, aRequestedDistanceMillimeter, aRequestedDirection) ==
    IF aRequestedDistanceMillimeter = 0 \/ aRequestedSpeed = 0
    THEN MotorStop(m, STOP_MODE_KEEP)
    ELSE [MotorStartRampUp(m, aRequestedSpeed, aRequestedDirection)
             EXCEPT !.CheckDistance = TRUE, !.EncoderCount = 0]

MotorSetStartSpeed(m, aStartSpeed) == [m EXCEPT !.StartSpeed = aStartSpeed]

MotorResetEncoderControlValues(m) == [m EXCEPT !.EncoderCount = 0]

MotorSetValuesForFixedDistanceDriving(m, aStartSpeed, aDriveSpeed, aSpeedCompensation) ==
    [m EXCEPT !.StartSpeed = aStartSpeed, !.DriveSpeed = aDriveSpeed,
              !.SpeedCompensation = WrapCompensation(aSpeedCompensation)]

\* updateMotor(): one step of the unit's ramp state machine.  Time and wheel
\* ticks are outside the model, so the step is one of the outcomes below;
\* `moving' is the value updateMotor returns.
MotorUpdate(m) ==
    LET out(n, b) == [m |-> n, moving |-> b]
        stay      == out(m, m.CurrentSpeed > 0)
    IN  CASE m.MotorRampState = MOTOR_STATE_START ->
               {out([m EXCEPT !.MotorRampState = MOTOR_STATE_RAMP_UP,
                              !.CurrentSpeed = IF m.TargetSpeed < m.StartSpeed
                                               THEN m.TargetSpeed ELSE m.StartSpeed], TRUE)}
          [] m.MotorRampState = MOTOR_STATE_RAMP_UP ->
               {stay,
                out([m EXCEPT !.MotorRampState = MOTOR_STATE_DRIVE_SPEED,
                              !.CurrentSpeed = MotorCompensatedSpeed(m, m.TargetSpeed)], TRUE)}
          [] m.MotorRampState = MOTOR_STATE_DRIVE_SPEED ->
               {stay} \cup
               (IF m.CheckDistance
                THEN {out([m EXCEPT !.MotorRampState = MOTOR_STATE_RAMP_DOWN], TRUE),
                      out(MotorStop(m, STOP_MODE_KEEP), FALSE)}
                ELSE {})
          [] m.MotorRampState = MOTOR_STATE_RAMP_DOWN ->
               {stay, out(MotorStop(m, STOP_MODE_KEEP), FALSE)}
          [] OTHER -> {stay}

---------------------------------------------------------------------------
(* The car: the fields as one record, and the methods as operators on it.  *)

Self ==
    [mode    |-> CarDirectionOrBrakeMode,
     right   |-> rightCarMotor,
     left    |-> leftCarMotor,
     rot     |-> CarRequestedRotationDegrees,
     dist    |-> CarRequestedDistanceMillimeter,
     angle   |-> CarTurnAngleHalfDegreesFromIMU,
     speed   |-> CarSpeedCmPerSecondFromIMU,
     way     |-> CarDistanceMillimeterFromIMU,
     factor  |-> FactorDegreeToMillimeter,
     changed |-> MotorControlValuesHaveChanged,
     ret     |-> FALSE,
     log     |-> << >>]

Emit(c, e) == [c EXCEPT !.log = Append(c.log, e)]

\* a command to one unit: the effect is logged and the unit's method applied
RightDo(c, e, m) == [Emit(c, e) EXCEPT !.right = m]
LeftDo(c, e, m)  == [Emit(c, e) EXCEPT !.left = m]

\* the write of CarDirectionOrBrakeMode
SetMode(c, aMode) == [Emit(c, Ev("mode", "car", 0, aMode, 0)) EXCEPT !.mode = aMode]

\* variant: the car never counts as stopped
isStopped_Never(c) == FALSE

isStopped(c) == c.right.CurrentSpeed = 0 /\ c.left.CurrentSpeed = 0

Unit(c, u) == IF u = "right" THEN c.right ELSE c.left
UnitDo(c, u, e, m) == IF u = "right" THEN RightDo(c, e, m) ELSE LeftDo(c, e, m)

\* variant: the right unit's mode is read before the units are stopped
Stop_ModeReadFirst(c, aStopMode) ==
    LET c0 == SetMode(c, c.right.CurrentDirectionOrBrakeMode)
        c1 == RightDo(c0, Ev("stop", "right", 0, aStopMode, 0), MotorStop(c0.right, aStopMode))
    IN  LeftDo(c1, Ev("stop", "left", 0, aStopMode, 0), MotorStop(c1.left, aStopMode))

\* stop(aStopMode)
Stop(c, aStopMode) ==
    LET c1 == RightDo(c, Ev("stop", "right", 0, aStopMode, 0), MotorStop(c.right, aStopMode))
        c2 == LeftDo(c1, Ev("stop", "left", 0, aStopMode, 0), MotorStop(c1.left, aStopMode))
    IN  SetMode(c2, c2.right.CurrentDirectionOrBrakeMode)

\* setStopMode(aStopMode)
SetStopMode(c, aStopMode) ==
    [c EXCEPT !.right = MotorSetStopMode(c.right, aStopMode),
              !.left = MotorSetStopMode(c.left, aStopMode)]

\* variant: the new mode is taken at once, the running motors are not stopped
checkAndHandleDirectionChange_NoStop(c, aRequestedDirection) ==
    IF c.mode # aRequestedDirection
    THEN LET tMaxSpeed == Max(c.right.CurrentSpeed, c.left.CurrentSpeed)
         IN  SetMode([c EXCEPT !.ret = (tMaxSpeed > 0)], aRequestedDirection)
    ELSE [c EXCEPT !.ret = FALSE]

\* variant: the motors are stopped on every change of mode, also when they stand
checkAndHandleDirectionChange_AlwaysStop(c, aRequestedDirection) ==
    IF c.mode # aRequestedDirection
    THEN LET tMaxSpeed == Max(c.right.CurrentSpeed, c.left.CurrentSpeed)
         IN  SetMode([Emit(Stop(c, MOTOR_BRAKE), Ev("delay", "car", tMaxSpeed \div 2, "", 0))
                        EXCEPT !.ret = TRUE], aRequestedDirection)
    ELSE [c EXCEPT !.ret = FALSE]

\* variant: the requested mode is not compared with the current one
checkAndHandleDirectionChange_NoCompare(c, aRequestedDirection) ==
    LET tMaxSpeed == Max(c.right.CurrentSpeed, c.left.CurrentSpeed)
        c1 == IF tMaxSpeed > 0
              THEN [Emit(Stop(c, MOTOR_BRAKE), Ev("delay", "car", tMaxSpeed \div 2, "", 0))
                       EXCEPT !.ret = TRUE]
              ELSE [c EXCEPT !.ret = FALSE]
    IN  SetMode(c1, aRequestedDirection)

\* checkAndHandleDirectionChange(aRequestedDirection); ret is its return value
checkAndHandleDirectionChange(c, aRequestedDirection) ==
    IF c.mode # aRequestedDirection
    THEN LET tMaxSpeed == Max(c.right.CurrentSpeed, c.left.CurrentSpeed)
             c1 == IF tMaxSpeed > 0
                   THEN [Emit(Stop(c, MOTOR_BRAKE), Ev("delay", "car", tMaxSpeed \div 2, "", 0))
                            EXCEPT !.ret = TRUE]
                   ELSE [c EXCEPT !.ret = FALSE]
         IN  SetMode(c1, aRequestedDirection)
    ELSE [c EXCEPT !.ret = FALSE]

\* variant: the units are commanded without the direction being arbitrated
setSpeed_NoArbitration(c, aRequestedSpeed, aRequestedDirection) ==
    LET c2 == RightDo(c, Ev("setSpeed", "right", aRequestedSpeed, aRequestedDirection, 0),
                      MotorSetSpeed(c.right, aRequestedSpeed, aRequestedDirection))
    IN  LeftDo(c2, Ev("setSpeed", "left", aRequestedSpeed, aRequestedDirection, 0),
               MotorSetSpeed(c2.left, aRequestedSpeed, aRequestedDirection))

\* setSpeed(aRequestedSpeed, aRequestedDirection)
setSpeed(c, aRequestedSpeed, aRequestedDirection) ==
    LET c1 == checkAndHandleDirectionChange(c, aRequestedDirection)
        c2 == RightDo(c1, Ev("setSpeed", "right", aRequestedSpeed, aRequestedDirection, 0),
                      MotorSetSpeed(c1.right, aRequestedSpeed, aRequestedDirection))
    IN  LeftDo(c2, Ev("setSpeed", "left", aRequestedSpeed, aRequestedDirection, 0),
               MotorSetSpeed(c2.left, aRequestedSpeed, aRequestedDirection))

\* changeSpeedCompensated(aRequestedSpeed)
changeSpeedCompensated(c, aRequestedSpeed) ==
    LET c1 == RightDo(c, Ev("changeSpeedCompensated", "right", aRequestedSpeed, "", 0),
                      MotorChangeSpeedCompensated(c.right, aRequestedSpeed))
    IN  LeftDo(c1, Ev("changeSpeedCompensated", "left", aRequestedSpeed, "", 0),
               MotorChangeSpeedCompensated(c1.left, aRequestedSpeed))

\* one unit's setSpeedCompensated, as a command of the car
UnitSetSpeedCompensated(c, u, aRequestedSpeed, aRequestedDirection) ==
    UnitDo(c, u, Ev("setSpeedCompensated", u, aRequestedSpeed, aRequestedDirection, 0),
           MotorSetSpeedCompensated(Unit(c, u), aRequestedSpeed, aRequestedDirection))

\* setSpeedCompensated(aRequestedSpeed, aRequestedDirection)
setSpeedCompensated(c, aRequestedSpeed, aRequestedDirection) ==
    LET c1 == checkAndHandleDirectionChange(c, aRequestedDirection)
        c2 == UnitSetSpeedCompensated(c1, "right", aRequestedSpeed, aRequestedDirection)
    IN  UnitSetSpeedCompensated(c2, "left", aRequestedSpeed, aRequestedDirection)

\* setSpeedCompensated(aRequestedSpeed, aRequestedDirection, aLeftRightSpeed);
\* aLeftRightSpeed is an int8_t, and so is its negation
setSpeedCompensatedLeftRight(c, aRequestedSpeed, aRequestedDirection, aLeftRightSpeed) ==
    LET c1 == checkAndHandleDirectionChange(c, aRequestedDirection)
        tLeftRightSpeed == IF aLeftRightSpeed >= 0 THEN aLeftRightSpeed
                           ELSE ToInt8(-aLeftRightSpeed)
        tUnmodified == IF aLeftRightSpeed >= 0 THEN "right" ELSE "left"
        tMotorWithModifiedSpeed == IF aLeftRightSpeed >= 0 THEN "left" ELSE "right"
        c2 == UnitSetSpeedCompensated(c1, tUnmodified, aRequestedSpeed, aRequestedDirection)
    IN  IF aRequestedSpeed >= tLeftRightSpeed
        THEN UnitSetSpeedCompensated(c2, tMotorWithModifiedSpeed,
                                     ToUint8(aRequestedSpeed - tLeftRightSpeed), aRequestedDirection)
        ELSE UnitSetSpeedCompensated(c2, tMotorWithModifiedSpeed, 0, aRequestedDirection)

\* variant: the signed speed's direction is also taken as the car's mode
setSpeedSigned_WritesMode(c, aRequestedSpeed) ==
    LET c1 == RightDo(c, Ev("setSpeedSigned", "right", aRequestedSpeed, "", 0),
                      MotorSetSpeedSigned(c.right, aRequestedSpeed))
        c2 == LeftDo(c1, Ev("setSpeedSigned", "left", aRequestedSpeed, "", 0),
                     MotorSetSpeedSigned(c1.left, aRequestedSpeed))
    IN  SetMode(c2, IF aRequestedSpeed < 0 THEN DIRECTION_BACKWARD ELSE DIRECTION_FORWARD)

\* setSpeed(int aRequestedSpeed)
setSpeedSigned(c, aRequestedSpeed) ==
    LET c1 == RightDo(c, Ev("setSpeedSigned", "right", aRequestedSpeed, "", 0),
                      MotorSetSpeedSigned(c.right, aRequestedSpeed))
    IN  LeftDo(c1, Ev("setSpeedSigned", "left", aRequestedSpeed, "", 0),
               MotorSetSpeedSigned(c1.left, aRequestedSpeed))

\* setSpeedCompensated(int aRequestedSpeed)
setSpeedCompensatedSigned(c, aRequestedSpeed) ==
    LET c1 == RightDo(c, Ev("setSpeedCompensatedSigned", "right", aRequestedSpeed, "", 0),
                      MotorSetSpeedCompensatedSigned(c.right, aRequestedSpeed))
    IN  LeftDo(c1, Ev("setSpeedCompensatedSigned", "left", aRequestedSpeed, "", 0),
               MotorSetSpeedCompensatedSigned(c1.left, aRequestedSpeed))

\* setValuesForFixedDistanceDriving(aStartSpeed, aDriveSpeed, aSpeedCompensationRight)
setValuesForFixedDistanceDriving(c, aStartSpeed, aDriveSpeed, aSpeedCompensationRight) ==
    IF aSpeedCompensationRight >= 0
    THEN [c EXCEPT !.right = MotorSetValuesForFixedDistanceDriving(
                                 c.right, aStartSpeed, aDriveSpeed, aSpeedCompensationRight),
                   !.left = MotorSetValuesForFixedDistanceDriving(
                                 c.left, aStartSpeed, aDriveSpeed, 0)]
    ELSE [c EXCEPT !.right = MotorSetValuesForFixedDistanceDriving(
                                 c.right, aStartSpeed, aDriveSpeed, 0),
                   !.left = MotorSetValuesForFixedDistanceDriving(
                                 c.left, aStartSpeed, aDriveSpeed, -aSpeedCompensationRight)]

\* variant: the change is always added, never taken from the other unit
changeSpeedCompensation_AlwaysAdds(c, aSpeedCompensationRight) ==
    LET c1 ==
          IF aSpeedCompensationRight > 0
          THEN [c EXCEPT !.right.SpeedCompensation =
                   WrapCompensation(c.right.SpeedCompensation + aSpeedCompensationRight)]
          ELSE [c EXCEPT !.left.SpeedCompensation =
                   WrapCompensation(c.left.SpeedCompensation + ToInt8(-aSpeedCompensationRight))]
    IN  [c1 EXCEPT !.changed = TRUE]

\* changeSpeedCompensation(aSpeedCompensationRight); the parameter is an int8_t,
\* negated in place in the else branch
changeSpeedCompensation(c, aSpeedCompensationRight) ==
    LET c1 ==
          IF aSpeedCompensationRight > 0
          THEN IF c.left.SpeedCompensation >= aSpeedCompensationRight
               THEN [c EXCEPT !.left.SpeedCompensation =
                        WrapCompensation(c.left.SpeedCompensation - aSpeedCompensationRight)]
               ELSE [c EXCEPT !.right.SpeedCompensation =
                        WrapCompensation(c.right.SpeedCompensation + aSpeedCompensationRight)]
          ELSE LET tNegated == ToInt8(-aSpeedCompensationRight)
               IN  IF c.right.SpeedCompensation >= tNegated
                   THEN [c EXCEPT !.right.SpeedCompensation =
                            WrapCompensation(c.right.SpeedCompensation - tNegated)]
                   ELSE [c EXCEPT !.left.SpeedCompensation =
                            WrapCompensation(c.left.SpeedCompensation + tNegated)]
    IN  [c1 EXCEPT !.changed = TRUE]

\* readMotorValuesFromEeprom(): each unit takes the values stored for it
readMotorValuesFromEeprom(c, aStored) ==
    [c EXCEPT !.right.StartSpeed = aStored.right[1], !.right.DriveSpeed = aStored.right[2],
              !.left.StartSpeed = aStored.left[1], !.left.DriveSpeed = aStored.left[2]]

\* setStartSpeed / setDriveSpeed
setStartSpeed(c, aStartSpeed) ==
    [c EXCEPT !.right.StartSpeed = aStartSpeed, !.left.StartSpeed = aStartSpeed]

setDriveSpeed(c, aDriveSpeed) ==
    [c EXCEPT !.right.DriveSpeed = aDriveSpeed, !.left.DriveSpeed = aDriveSpeed]

\* startRampUp(aRequestedSpeed, aRequestedDirection)
startRampUp(c, aRequestedSpeed, aRequestedDirection) ==
    LET c1 == checkAndHandleDirectionChange(c, aRequestedDirection)
        c2 == RightDo(c1, Ev("startRampUp", "right", aRequestedSpeed, aRequestedDirection, 0),
                      MotorStartRampUp(c1.right, aRequestedSpeed, aRequestedDirection))
    IN  LeftDo(c2, Ev("startRampUp", "left", aRequestedSpeed, aRequestedDirection, 0),
               MotorStartRampUp(c2.left, aRequestedSpeed, aRequestedDirection))

\* startRampUp(aRequestedDirection): each unit ramps to its own DriveSpeed
startRampUpToDriveSpeed(c, aRequestedDirection) ==
    LET c1 == checkAndHandleDirectionChange(c, aRequestedDirection)
        c2 == RightDo(c1, Ev("startRampUp", "right", c1.right.DriveSpeed, aRequestedDirection, 0),
                      MotorStartRampUp(c1.right, c1.right.DriveSpeed, aRequestedDirection))
    IN  LeftDo(c2, Ev("startRampUp", "left", c2.left.DriveSpeed, aRequestedDirection, 0),
               MotorStartRampUp(c2.left, c2.left.DriveSpeed, aRequestedDirection))

\* startRampDown()
startRampDown(c) ==
    IF isStopped(c)
    THEN c
    ELSE LET c1 == RightDo(c, Ev("startRampDown", "right", 0, "", 0), MotorStartRampDown(c.right))
         IN  LeftDo(c1, Ev("startRampDown", "left", 0, "", 0), MotorStartRampDown(c1.left))

---------------------------------------------------------------------------
(* The closed loop: updateIMUData, updateMotors.                           *)

TURN_OVERRUN_HALF_ANGLE == 2
SLOW_DOWN_ANGLE == 10
RAMP_DECELERATION_TIMES_2 == 3500

\* what the IMU may deliver at one poll: turn angle in half degrees,
\* forward speed in cm/s, distance in millimeter
Reading(a, s, w) == [angle |-> a, speed |-> s, way |-> w]
IMUReadings ==
    {Reading(159, 0, 0), Reading(160, 0, 0), Reading(177, 0, 0), Reading(178, 0, 0),
     Reading(-178, 0, 0), Reading(0, 40, 450), Reading(0, 40, 460), Reading(0, 40, 500),
     Reading(0, 40, 2000)}

\* updateIMUData(): without new data the cached values stay; with new data
\* the three cached values are the absolute speed and distance and the angle
IMURefresh(c, r) == [c EXCEPT !.angle = r.angle, !.speed = Abs(r.speed), !.way = Abs(r.way)]

updateIMUData(c) == {c} \cup {IMURefresh(c, r) : r \in IMUReadings}

\* getBrakingDistanceMillimeter(), IMU build without encoder: unsigned int arithmetic
getBrakingDistanceMillimeter(c) ==
    ToUint16(c.speed * c.speed) \div (RAMP_DECELERATION_TIMES_2 \div 100)

\* the two updateMotor calls that end updateMotors: both are made, the results
\* or-ed; the effect carries what the unit returned (1: still moving)
updateBothMotors(c) ==
    {[LeftDo(RightDo(c, Ev("updateMotor", "right", IF r.moving THEN 1 ELSE 0, "", 0), r.m),
             Ev("updateMotor", "left", IF l.moving THEN 1 ELSE 0, "", 0), l.m)
         EXCEPT !.ret = (r.moving \/ l.moving)]
       : r \in MotorUpdate(c.right), l \in MotorUpdate(c.left)}

\* variant: the stop needs the angle to exceed the target less the overrun
updateRotation_Late(c) ==
    LET tRequestedRotationDegreesForCompare == Abs(c.rot * 2)
        tCarTurnAngleHalfDegreesFromIMUForCompare == Abs(c.angle)
    IN  IF tCarTurnAngleHalfDegreesFromIMUForCompare + TURN_OVERRUN_HALF_ANGLE
              > tRequestedRotationDegreesForCompare
        THEN [Stop(c, MOTOR_BRAKE) EXCEPT !.rot = 0, !.ret = FALSE]
        ELSE IF tCarTurnAngleHalfDegreesFromIMUForCompare + (SLOW_DOWN_ANGLE * 2)
                   >= tRequestedRotationDegreesForCompare
             THEN [changeSpeedCompensated(c, c.right.StartSpeed) EXCEPT !.ret = TRUE]
             ELSE [c EXCEPT !.ret = TRUE]

\* variant: the slow down begins SLOW_DOWN_ANGLE half degrees before the target
updateRotation_NarrowSlowDown(c) ==
    LET tRequestedRotationDegreesForCompare == Abs(c.rot * 2)
        tCarTurnAngleHalfDegreesFromIMUForCompare == Abs(c.angle)
    IN  IF tCarTurnAngleHalfDegreesFromIMUForCompare + TURN_OVERRUN_HALF_ANGLE
              >= tRequestedRotationDegreesForCompare
        THEN [Stop(c, MOTOR_BRAKE) EXCEPT !.rot = 0, !.ret = FALSE]
        ELSE IF tCarTurnAngleHalfDegreesFromIMUForCompare + SLOW_DOWN_ANGLE
                   >= tRequestedRotationDegreesForCompare
             THEN [changeSpeedCompensated(c, c.right.StartSpeed) EXCEPT !.ret = TRUE]
             ELSE [c EXCEPT !.ret = TRUE]

\* the rotation branch of updateMotors (USE_MPU6050_IMU)
updateRotation(c) ==
    LET tRequestedRotationDegreesForCompare == Abs(c.rot * 2)
        tCarTurnAngleHalfDegreesFromIMUForCompare == Abs(c.angle)
    IN  IF tCarTurnAngleHalfDegreesFromIMUForCompare + TURN_OVERRUN_HALF_ANGLE
              >= tRequestedRotationDegreesForCompare
        THEN [Stop(c, MOTOR_BRAKE) EXCEPT !.rot = 0, !.ret = FALSE]
        ELSE IF tCarTurnAngleHalfDegreesFromIMUForCompare + (SLOW_DOWN_ANGLE * 2)
                   >= tRequestedRotationDegreesForCompare
             THEN [changeSpeedCompensated(c, c.right.StartSpeed) EXCEPT !.ret = TRUE]
             ELSE [c EXCEPT !.ret = TRUE]

\* variant: the ramp down waits for the distance itself, without the braking distance
updateDistance_NoBrakingDistance(c) ==
    IF c.dist # 0 /\ ~UseEncoder
       /\ c.right.MotorRampState \in
            {MOTOR_STATE_RAMP_UP, MOTOR_STATE_DRIVE_SPEED, MOTOR_STATE_RAMP_DOWN}
    THEN LET c1 == IF c.way >= c.dist
                   THEN Stop([c EXCEPT !.dist = 0], MOTOR_BRAKE)
                   ELSE c
         IN  IF c1.right.MotorRampState # MOTOR_STATE_RAMP_DOWN /\ c1.way >= c1.dist
             THEN startRampDown(c1)
             ELSE c1
    ELSE c

\* the distance branch of updateMotors (USE_MPU6050_IMU without encoder)
updateDistance(c) ==
    IF c.dist # 0 /\ ~UseEncoder
       /\ c.right.MotorRampState \in
            {MOTOR_STATE_RAMP_UP, MOTOR_STATE_DRIVE_SPEED, MOTOR_STATE_RAMP_DOWN}
    THEN LET tBrakingDistanceMillimeter == getBrakingDistanceMillimeter(c)
             c1 == IF c.way >= c.dist
                   THEN Stop([c EXCEPT !.dist = 0], MOTOR_BRAKE)
                   ELSE c
         IN  IF c1.right.MotorRampState # MOTOR_STATE_RAMP_DOWN
                /\ ToUint16(c1.way + tBrakingDistanceMillimeter) >= c1.dist
             THEN startRampDown(c1)
             ELSE c1
    ELSE c

\* variant: the distance is looked at on every update, the rotation after it
updateMotors_DistanceFirst(c) ==
    IF UseIMU
    THEN UNION {IF c1.rot # 0
                THEN {updateRotation(updateDistance(c1))}
                ELSE updateBothMotors(updateDistance(c1))
                  : c1 \in updateIMUData(c)}
    ELSE updateBothMotors(c)

\* updateMotors(): the set of results one call can have
updateMotors(c) ==
    IF UseIMU
    THEN UNION {IF c1.rot # 0
                THEN {updateRotation(c1)}
                ELSE updateBothMotors(updateDistance(c1))
                  : c1 \in updateIMUData(c)}
    ELSE updateBothMotors(c)

---------------------------------------------------------------------------
(* The planner: startGoDistanceMillimeter, startRotate.                    *)

\* the dummy distance of a rotation under IMU control
IMURotationDistanceMillimeter == 2000

\* startGoDistanceMillimeter(aRequestedSpeed, aRequestedDistanceMillimeter, aRequestedDirection)
startGoDistanceMillimeter(c, aRequestedSpeed, aRequestedDistanceMillimeter, aRequestedDirection) ==
    LET c1 == checkAndHandleDirectionChange(c, aRequestedDirection)
        c2 == IF UseIMU
              THEN [Emit(c1, Ev("resetCarData", "imu", 0, "", 0))
                      EXCEPT !.dist = aRequestedDistanceMillimeter]
              ELSE c1
    IN  IF UseIMU /\ ~UseEncoder
        THEN startRampUp(c2, aRequestedSpeed, aRequestedDirection)
        ELSE LET c3 == RightDo(c2, Ev("startGoDistanceMillimeter", "right", aRequestedSpeed,
                                      aRequestedDirection, aRequestedDistanceMillimeter),
                               MotorStartGoDistance(c2.right, aRequestedSpeed,
                                      aRequestedDistanceMillimeter, aRequestedDirection))
             IN  LeftDo(c3, Ev("startGoDistanceMillimeter", "left", aRequestedSpeed,
                               aRequestedDirection, aRequestedDistanceMillimeter),
                        MotorStartGoDistance(c3.left, aRequestedSpeed,
                               aRequestedDistanceMillimeter, aRequestedDirection))

\* variant: the sign of the angle does not select the unit
RightMotorIfPositiveTurn_NoSwap(aRotationDegrees) == "right"

\* the unit startRotate calls tRightMotorIfPositiveTurn, and the other one
RightMotorIfPositiveTurn(aRotationDegrees) == IF aRotationDegrees >= 0 THEN "right" ELSE "left"
LeftMotorIfPositiveTurn(aRotationDegrees)  == IF aRotationDegrees >= 0 THEN "left" ELSE "right"

\* tDistanceMillimeter: the float product plus 0.5, cut to an unsigned int
RotationDistanceMillimeter(c, aRotationDegrees) ==
    IF UseIMU
    THEN IMURotationDistanceMillimeter
    ELSE ToUint16((2 * Abs(aRotationDegrees) * c.factor + 10) \div 20)

\* tDistanceMillimeterRight and tDistanceMillimeterLeft
TurnDistanceRight(aTurnDirection, tDistanceMillimeter) ==
    IF aTurnDirection = TURN_FORWARD THEN tDistanceMillimeter
    ELSE IF aTurnDirection = TURN_BACKWARD THEN 0
    ELSE tDistanceMillimeter \div 2

\* variant: in place, the left side gets the rest of the distance, not the half
TurnDistanceLeft_Rest(aTurnDirection, tDistanceMillimeter) ==
    IF aTurnDirection = TURN_FORWARD THEN 0
    ELSE IF aTurnDirection = TURN_BACKWARD THEN tDistanceMillimeter
    ELSE tDistanceMillimeter - (tDistanceMillimeter \div 2)

TurnDistanceLeft(aTurnDirection, tDistanceMillimeter) ==
    IF aTurnDirection = TURN_FORWARD THEN 0
    ELSE IF aTurnDirection = TURN_BACKWARD THEN tDistanceMillimeter
    ELSE tDistanceMillimeter \div 2

\* variant: the slow speed is taken whatever the start speed is
TurnSpeed_NoThreshold(m, aUseSlowSpeed) ==
    IF aUseSlowSpeed
    THEN ToUint8(m.StartSpeed + (m.StartSpeed \div 2))
    ELSE m.DriveSpeed

\* tTurnSpeedRight / tTurnSpeedLeft of one unit
TurnSpeed(m, aUseSlowSpeed) ==
    IF aUseSlowSpeed /\ m.StartSpeed < 160
    THEN ToUint8(m.StartSpeed + (m.StartSpeed \div 2))
    ELSE m.DriveSpeed

\* startRotate(aRotationDegrees, aTurnDirection, aUseSlowSpeed)
startRotate(c, aRotationDegrees, aTurnDirection, aUseSlowSpeed) ==
    LET c1 == IF UseIMU
              THEN [Emit(c, Ev("resetCarData", "imu", 0, "", 0)) EXCEPT !.rot = aRotationDegrees]
              ELSE c
        tRight == RightMotorIfPositiveTurn(aRotationDegrees)
        tLeft  == LeftMotorIfPositiveTurn(aRotationDegrees)
        tDistanceMillimeter == RotationDistanceMillimeter(c1, aRotationDegrees)
        tDistanceMillimeterRight == TurnDistanceRight(aTurnDirection, tDistanceMillimeter)
        tDistanceMillimeterLeft  == TurnDistanceLeft(aTurnDirection, tDistanceMillimeter)
        tTurnSpeedRight == TurnSpeed(Unit(c1, tRight), aUseSlowSpeed)
        tTurnSpeedLeft  == TurnSpeed(Unit(c1, tLeft), aUseSlowSpeed)
    IN  IF UseIMU
        THEN LET c2 == IF tDistanceMillimeterRight > 0
                       THEN UnitSetSpeedCompensated(c1, tRight, tTurnSpeedRight, DIRECTION_FORWARD)
                       ELSE c1
             IN  IF tDistanceMillimeterLeft > 0
                 THEN UnitSetSpeedCompensated(c2, tLeft, tTurnSpeedLeft, DIRECTION_BACKWARD)
                 ELSE c2
        ELSE LET c2 == UnitDo(c1, tRight,
                              Ev("startGoDistanceMillimeter", tRight, tTurnSpeedRight,
                                 DIRECTION_FORWARD, tDistanceMillimeterRight),
                              MotorStartGoDistance(Unit(c1, tRight), tTurnSpeedRight,
                                 tDistanceMillimeterRight, DIRECTION_FORWARD))
             IN  UnitDo(c2, tLeft,
                        Ev("startGoDistanceMillimeter", tLeft, tTurnSpeedLeft,
                           DIRECTION_BACKWARD, tDistanceMillimeterLeft),
                        MotorStartGoDistance(Unit(c2, tLeft), tTurnSpeedLeft,
                           tDistanceMillimeterLeft, DIRECTION_BACKWARD))

---------------------------------------------------------------------------
(* Inputs of the calls.                                                    *)

SpeedInputs        == {0, 100, 255}
SignedSpeedInputs  == {-100, 100}
\* <<aRequestedSpeed, aLeftRightSpeed>>
LeftRightInputs    == {<<100, -128>>, <<100, -101>>, <<100, -1>>, <<100, 0>>, <<100, 101>>,
                       <<0, -128>>, <<255, 127>>}
CompensationInputs == {-6, -3, 3, 5}
DistanceInputs     == {0, 500}
RotationInputs     == {-90, 0, 90}
StartSpeedInputs   == {160}
DriveSpeedInputs   == {255}
Callbacks          == {"none", "stop"}
\* what the EEPROM may hold: <<StartSpeed, DriveSpeed>> of each unit
EepromInputs       == {[right |-> <<45, 80>>, left |-> <<60, 120>>],
                       [right |-> <<160, 255>>, left |-> <<30, 200>>]}

FactorDegreeToMillimeterDefault == 23

Args(speed, dir, n, dist, turn, slow) ==
    [speed |-> speed, dir |-> dir, n |-> n, dist |-> dist, turn |-> turn, slow |-> slow]
NoArgs == Args(0, "", 0, 0, "", FALSE)

---------------------------------------------------------------------------
(* The state after construction and init().                                *)

Init ==
    /\ feedback \in Feedbacks
    /\ CarDirectionOrBrakeMode \in Modes        \* set neither by the constructor nor by init()
    /\ rightCarMotor = MotorInit
    /\ leftCarMotor = MotorInit
    /\ CarRequestedRotationDegrees = 0
    /\ CarRequestedDistanceMillimeter = 0
    /\ CarTurnAngleHalfDegreesFromIMU = 0
    /\ CarSpeedCmPerSecondFromIMU = 0
    /\ CarDistanceMillimeterFromIMU = 0
    /\ FactorDegreeToMillimeter = FactorDegreeToMillimeterDefault
    /\ MotorControlValuesHaveChanged = FALSE
    /\ call = [op |-> "init", args |-> NoArgs, entry |-> Self, ret |-> FALSE, log |-> << >>]
    /\ pc = "idle"
    /\ nCalls = 0
    /\ tSpeed = 0
    /\ tMotorMovingCount = 0

\* the fields take the values of c
Fields(c) ==
    /\ CarDirectionOrBrakeMode' = c.mode
    /\ rightCarMotor' = c.right
    /\ leftCarMotor' = c.left
    /\ CarRequestedRotationDegrees' = c.rot
    /\ CarRequestedDistanceMillimeter' = c.dist
    /\ CarTurnAngleHalfDegreesFromIMU' = c.angle
    /\ CarSpeedCmPerSecondFromIMU' = c.speed
    /\ CarDistanceMillimeterFromIMU' = c.way
    /\ FactorDegreeToMillimeter' = c.factor
    /\ MotorControlValuesHaveChanged' = c.changed

\* the fields take the values of c; the call is recorded
Commit(c, op, args) ==
    /\ Fields(c)
    /\ call' = [op |-> op, args |-> args, entry |-> Self, ret |-> c.ret, log |-> c.log]
    /\ nCalls' = nCalls + 1
    /\ UNCHANGED <<feedback, tSpeed, tMotorMovingCount>>

\* a caller may call a method when no blocking method runs
MayCall == pc = "idle" /\ nCalls < MaxCalls

---------------------------------------------------------------------------
(* One action per public method.                                           *)

CheckAndHandleDirectionChange ==
    /\ MayCall
    /\ \E d \in Modes :
          Commit(checkAndHandleDirectionChange(Self, d), "checkAndHandleDirectionChange",
                 Args(0, d, 0, 0, "", FALSE))
    /\ UNCHANGED pc

SetSpeed ==
    /\ MayCall
    /\ \E s \in SpeedInputs, d \in Directions :
          Commit(setSpeed(Self, s, d), "setSpeed", Args(s, d, 0, 0, "", FALSE))
    /\ UNCHANGED pc

SetSpeedCompensated ==
    /\ MayCall
    /\ \E s \in {0, 100}, d \in Directions :
          Commit(setSpeedCompensated(Self, s, d), "setSpeedCompensated",
                 Args(s, d, 0, 0, "", FALSE))
    /\ UNCHANGED pc

SetSpeedCompensatedLeftRight ==
    /\ MayCall
    /\ \E sb \in LeftRightInputs, d \in Directions :
          Commit(setSpeedCompensatedLeftRight(Self, sb[1], d, sb[2]),
                 "setSpeedCompensatedLeftRight", Args(sb[1], d, sb[2], 0, "", FALSE))
    /\ UNCHANGED pc

SetSpeedSigned ==
    /\ MayCall
    /\ \E v \in SignedSpeedInputs :
          Commit(setSpeedSigned(Self, v), "setSpeedSigned", Args(0, "", v, 0, "", FALSE))
    /\ UNCHANGED pc

SetSpeedCompensatedSigned ==
    /\ MayCall
    /\ \E v \in SignedSpeedInputs :
          Commit(setSpeedCompensatedSigned(Self, v), "setSpeedCompensatedSigned",
                 Args(0, "", v, 0, "", FALSE))
    /\ UNCHANGED pc

ChangeSpeedCompensated ==
    /\ MayCall
    /\ \E s \in {0, 100} :
          Commit(changeSpeedCompensated(Self, s), "changeSpeedCompensated",
                 Args(s, "", 0, 0, "", FALSE))
    /\ UNCHANGED pc

StopCar ==
    /\ MayCall
    /\ \E m \in StopModes \cup {STOP_MODE_KEEP} :
          Commit(Stop(Self, m), "stop", Args(0, m, 0, 0, "", FALSE))
    /\ UNCHANGED pc

SetStopModeCall ==
    /\ MayCall
    /\ \E m \in StopModes :
          Commit(SetStopMode(Self, m), "setStopMode", Args(0, m, 0, 0, "", FALSE))
    /\ UNCHANGED pc

SetValuesForFixedDistanceDriving ==
    /\ MayCall
    /\ \E s \in StartSpeedInputs, d \in DriveSpeedInputs, k \in {-6, 5} :
          Commit(setValuesForFixedDistanceDriving(Self, s, d, k),
                 "setValuesForFixedDistanceDriving", Args(s, "", k, d, "", FALSE))
    /\ UNCHANGED pc

ChangeSpeedCompensation ==
    /\ MayCall
    /\ \E k \in CompensationInputs :
          Commit(changeSpeedCompensation(Self, k), "changeSpeedCompensation",
                 Args(0, "", k, 0, "", FALSE))
    /\ UNCHANGED pc

ReadMotorValuesFromEeprom ==
    /\ MayCall
    /\ \E e \in EepromInputs :
          Commit(readMotorValuesFromEeprom(Self, e), "readMotorValuesFromEeprom", NoArgs)
    /\ UNCHANGED pc

SetStartSpeed ==
    /\ MayCall
    /\ \E s \in StartSpeedInputs :
          Commit(setStartSpeed(Self, s), "setStartSpeed", Args(s, "", 0, 0, "", FALSE))
    /\ UNCHANGED pc

SetDriveSpeed ==
    /\ MayCall
    /\ \E s \in DriveSpeedInputs :
          Commit(setDriveSpeed(Self, s), "setDriveSpeed", Args(s, "", 0, 0, "", FALSE))
    /\ UNCHANGED pc

StartRampUp ==
    /\ MayCall
    /\ \E s \in {100}, d \in Directions :
          Commit(startRampUp(Self, s, d), "startRampUp", Args(s, d, 0, 0, "", FALSE))
    /\ UNCHANGED pc

StartRampUpToDriveSpeed ==
    /\ MayCall
    /\ \E d \in Directions :
          Commit(startRampUpToDriveSpeed(Self, d), "startRampUpToDriveSpeed",
                 Args(0, d, 0, 0, "", FALSE))
    /\ UNCHANGED pc

StartRampDown ==
    /\ MayCall
    /\ Commit(startRampDown(Self), "startRampDown", NoArgs)
    /\ UNCHANGED pc

StartGoDistanceMillimeter ==
    /\ MayCall
    /\ \E s \in {100}, w \in DistanceInputs, d \in Directions :
          Commit(startGoDistanceMillimeter(Self, s, w, d), "startGoDistanceMillimeter",
                 Args(s, d, 0, w, "", FALSE))
    /\ UNCHANGED pc

StartRotate ==
    /\ MayCall
    /\ \E a \in RotationInputs, t \in TurnDirections, slow \in BOOLEAN :
          Commit(startRotate(Self, a, t, slow), "startRotate", Args(0, "", a, 0, t, slow))
    /\ UNCHANGED pc

UpdateMotors ==
    /\ MayCall
    /\ \E c \in updateMotors(Self) : Commit(c, "updateMotors", NoArgs)
    /\ UNCHANGED pc

\* aLoopCallback: NULL or a function of the caller, which may stop the car
LoopCallback(c, cb) == IF cb = "stop" THEN Stop(c, STOP_MODE_KEEP) ELSE c

\* one pass of the loop of waitUntilStopped: updateMotors(aLoopCallback), and
\* after the pass that returned false the write of CarDirectionOrBrakeMode
waitUntilStoppedPass(c, cb) ==
    {IF c1.ret THEN c1 ELSE SetMode(c1, c1.right.CurrentDirectionOrBrakeMode)
       : c1 \in updateMotors(LoopCallback(c, cb))}

WaitUntilStopped ==
    /\ nCalls < MaxCalls
    /\ \E cb \in Callbacks : \E c \in waitUntilStoppedPass(Self, cb) :
          /\ Commit(c, "waitUntilStopped", Args(0, cb, 0, 0, "", FALSE))
          /\ pc' = IF c.ret THEN "waitUntilStopped" ELSE "idle"

Next ==
    \/ CheckAndHandleDirectionChange
    \/ SetSpeed
    \/ SetSpeedCompensated
    \/ SetSpeedCompensatedLeftRight
    \/ SetSpeedSigned
    \/ SetSpeedCompensatedSigned
    \/ ChangeSpeedCompensated
    \/ StopCar
    \/ SetStopModeCall
    \/ SetValuesForFixedDistanceDriving
    \/ ChangeSpeedCompensation
    \/ ReadMotorValuesFromEeprom
    \/ SetStartSpeed
    \/ SetDriveSpeed
    \/ StartRampUp
    \/ StartRampUpToDriveSpeed
    \/ StartRampDown
    \/ StartGoDistanceMillimeter
    \/ StartRotate
    \/ UpdateMotors
    \/ WaitUntilStopped

Spec == Init /\ [][Next]_vars

---------------------------------------------------------------------------
(* The closed loop on its own: a caller starts moves and polls             *)
(* updateMotors, directly or through waitUntilStopped.                     *)

\* number of method calls in one behaviour of the closed loop
MaxLoopCalls == 3

MayPoll == pc = "idle" /\ nCalls < MaxLoopCalls

LoadMotorValues ==
    /\ MayPoll
    /\ \E e \in EepromInputs :
          Commit(readMotorValuesFromEeprom(Self, e), "readMotorValuesFromEeprom", NoArgs)
    /\ UNCHANGED pc

GoDistance ==
    /\ MayPoll
    /\ \E d \in Directions :
          Commit(startGoDistanceMillimeter(Self, 100, 500, d), "startGoDistanceMillimeter",
                 Args(100, d, 0, 500, "", FALSE))
    /\ UNCHANGED pc

Rotate ==
    /\ MayPoll
    /\ \E a \in {-90, 90}, t \in {TURN_FORWARD, TURN_IN_PLACE}, slow \in BOOLEAN :
          Commit(startRotate(Self, a, t, slow), "startRotate", Args(0, "", a, 0, t, slow))
    /\ UNCHANGED pc

StopMove ==
    /\ MayPoll
    /\ Commit(Stop(Self, STOP_MODE_KEEP), "stop", Args(0, STOP_MODE_KEEP, 0, 0, "", FALSE))
    /\ UNCHANGED pc

Poll ==
    /\ MayPoll
    /\ \E c \in updateMotors(Self) : Commit(c, "updateMotors", NoArgs)
    /\ UNCHANGED pc

PollUntilStopped ==
    /\ nCalls < MaxLoopCalls
    /\ \E cb \in Callbacks : \E c \in waitUntilStoppedPass(Self, cb) :
          /\ Commit(c, "waitUntilStopped", Args(0, cb, 0, 0, "", FALSE))
          /\ pc' = IF c.ret THEN "waitUntilStopped" ELSE "idle"

NextLoop ==
    \/ LoadMotorValues
    \/ GoDistance
    \/ Rotate
    \/ StopMove
    \/ Poll
    \/ PollUntilStopped

SpecLoop == Init /\ [][NextLoop]_vars

---------------------------------------------------------------------------
(* calibrate(): compiled with USE_ENCODER_MOTOR_CONTROL or USE_MPU6050_IMU. *)
(* The call blocks; one step of the model is one pass of its for loop.     *)
(* While it runs, `call' keeps the car as it was at the entry of           *)
(* calibrate, the sweep speed and the effects of the last pass.            *)

MAX_SPEED == 255
DELAY_TO_NEXT_IMU_DATA_MILLIS == 2
CalibrateFirstSpeed == 20
CalibrateEncoderDelay == 10
CalibrateEncoderCount == 6
CalibrateIMUSpeed == 10

\* number of calls of calibrate in one behaviour
MaxCalibrations == 1

\* the sweep speeds at which the wheels may begin to turn, at which a wheel
\* may have turned CalibrateEncoderCount ticks only, and at which the
\* callback may stop the car
MoveSpeeds == {27, 30}
NearlyMoveSpeeds == {26}
CancelSpeeds == {25, 28}

\* the encoder counts a unit may show after the active delay
EncoderCountsAfterDelay(m, aSpeed) ==
    {m.EncoderCount} \cup
    {n \in (IF m.CurrentSpeed = 0 THEN {}
            ELSE IF aSpeed \in MoveSpeeds THEN {CalibrateEncoderCount + 1}
            ELSE IF aSpeed \in NearlyMoveSpeeds THEN {CalibrateEncoderCount}
            ELSE {}) : n > m.EncoderCount}

\* what the IMU may measure during the active delay
IMUReadingsAfterDelay(aSpeed) ==
    {Reading(0, 0, 0)} \cup (IF aSpeed \in MoveSpeeds THEN {Reading(0, 40, 450)} ELSE {})

\* stop(), resetControlValues(), StartSpeed = 0, resetOffsetDataAndWait()
calibrateBegin(c) ==
    LET c1 == Stop(c, STOP_MODE_KEEP)
        c2 == IF UseEncoder
              THEN LeftDo(RightDo(c1, Ev("resetEncoderControlValues", "right", 0, "", 0),
                                  MotorResetEncoderControlValues(c1.right)),
                          Ev("resetEncoderControlValues", "left", 0, "", 0),
                          MotorResetEncoderControlValues(c1.left))
              ELSE c1
        c3 == [c2 EXCEPT !.right.StartSpeed = 0, !.left.StartSpeed = 0]
    IN  IF UseEncoder THEN c3 ELSE Emit(c3, Ev("resetOffsetDataAndWait", "imu", 0, "", 0))

\* the head of a pass: a unit without start speed is commanded with the sweep speed
calibrateCommand(c, aSpeed) ==
    LET c1 == IF c.right.StartSpeed = 0
              THEN RightDo(c, Ev("setSpeed", "right", aSpeed, DIRECTION_FORWARD, 0),
                           MotorSetSpeed(c.right, aSpeed, DIRECTION_FORWARD))
              ELSE c
    IN  IF c1.left.StartSpeed = 0
        THEN LeftDo(c1, Ev("setSpeed", "left", aSpeed, DIRECTION_FORWARD, 0),
                    MotorSetSpeed(c1.left, aSpeed, DIRECTION_FORWARD))
        ELSE c1

\* aLoopCallback() in the active delay; aStops: this time it stops the car
calibrateCallback(c, cb, aStops) ==
    IF cb = "none"
    THEN c
    ELSE LET c1 == Emit(c, Ev("aLoopCallback", "car", 0, "", 0))
         IN  IF aStops THEN LoopCallback(c1, cb) ELSE c1

\* variant: a wheel counts as moving from CalibrateEncoderCount ticks on
EncoderShowsMovement_AtThreshold(m) == m.EncoderCount >= CalibrateEncoderCount

\* the wheel moved: more than CalibrateEncoderCount ticks
EncoderShowsMovement(m) == m.EncoderCount > CalibrateEncoderCount

\* variant: the sweep goes on after both units were found moving
calibrateBreaks_Never(aMotorMovingCount) == FALSE

\* the end of the loop with encoders
calibrateBreaks(aMotorMovingCount) == aMotorMovingCount >= 2

\* the check of a pass with encoders: a unit that moved takes the sweep speed
\* as its start speed
calibrateCheckEncoder(c, aSpeed, aMotorMovingCount) ==
    LET tRight == c.right.StartSpeed = 0 /\ EncoderShowsMovement(c.right)
        c1 == IF tRight
              THEN RightDo(c, Ev("setStartSpeed", "right", aSpeed, "", 0),
                           MotorSetStartSpeed(c.right, aSpeed))
              ELSE c
        n1 == ToUint8(aMotorMovingCount + (IF tRight THEN 1 ELSE 0))
        tLeft == c1.left.StartSpeed = 0 /\ EncoderShowsMovement(c1.left)
        c2 == IF tLeft
              THEN LeftDo(c1, Ev("setStartSpeed", "left", aSpeed, "", 0),
                          MotorSetStartSpeed(c1.left, aSpeed))
              ELSE c1
        n2 == ToUint8(n1 + (IF tLeft THEN 1 ELSE 0))
    IN  [c |-> c2, count |-> n2, next |-> IF calibrateBreaks(n2) THEN "break" ELSE "loop"]

\* the check of a pass with the IMU: the car moved, both units take the sweep speed
calibrateCheckIMU(c, aSpeed, aMotorMovingCount, aReading) ==
    IF Abs(aReading.speed) >= CalibrateIMUSpeed
    THEN [c |-> LeftDo(RightDo(c, Ev("setStartSpeed", "right", aSpeed, "", 0),
                               MotorSetStartSpeed(c.right, aSpeed)),
                       Ev("setStartSpeed", "left", aSpeed, "", 0),
                       MotorSetStartSpeed(c.left, aSpeed)),
          count |-> aMotorMovingCount, next |-> "break"]
    ELSE [c |-> c, count |-> aMotorMovingCount, next |-> "loop"]

\* one pass of the for loop: the commands, the active delay (the callback may
\* stop the car at its first call, which ends calibrate at once), the check.
\* The results: the car, the count, and how the pass ends.
calibratePass(c, cb, aSpeed, aMotorMovingCount) ==
    LET c1 == calibrateCommand(c, aSpeed)
        tStopChoices == IF cb = "stop" /\ aSpeed \in CancelSpeeds THEN BOOLEAN ELSE {FALSE}
        after(c2) ==
            IF isStopped(c2)
            THEN {[c |-> c2, count |-> aMotorMovingCount, next |-> "return"]}
            ELSE IF UseEncoder
            THEN {calibrateCheckEncoder(
                      [Emit(c2, Ev("delay", "car", CalibrateEncoderDelay, "", 0))
                          EXCEPT !.right.EncoderCount = r, !.left.EncoderCount = l],
                      aSpeed, aMotorMovingCount)
                    : r \in EncoderCountsAfterDelay(c2.right, aSpeed),
                      l \in EncoderCountsAfterDelay(c2.left, aSpeed)}
            ELSE UNION {{calibrateCheckIMU(c3, aSpeed, aMotorMovingCount, rd)
                           : c3 \in {Emit(c2, Ev("delay", "car", DELAY_TO_NEXT_IMU_DATA_MILLIS, "", 0)),
                                     IMURefresh(Emit(c2, Ev("delay", "car",
                                                DELAY_TO_NEXT_IMU_DATA_MILLIS, "", 0)), rd)}}
                          : rd \in IMUReadingsAfterDelay(aSpeed)}
    IN  UNION {after(calibrateCallback(c1, cb, tStops)) : tStops \in tStopChoices}

BeginCalibrate ==
    /\ pc = "idle" /\ nCalls < MaxCalibrations
    /\ feedback # "none"
    /\ \E cb \in Callbacks :
          LET c == calibrateBegin(Self)
          IN  /\ Fields(c)
              /\ call' = [op |-> "calibrate", args |-> Args(0, cb, 0, 0, "", FALSE),
                          entry |-> Self, ret |-> FALSE, log |-> c.log]
    /\ nCalls' = nCalls + 1
    /\ tSpeed' = CalibrateFirstSpeed
    /\ tMotorMovingCount' = 0
    /\ pc' = "calibrate"
    /\ UNCHANGED feedback

\* a pass of the loop; after the last pass, or a break, the final stop()
SweepStep ==
    /\ pc = "calibrate"
    /\ \E o \in calibratePass(Self, call.args.dir, tSpeed, tMotorMovingCount) :
          LET tLoopEnds == o.next = "break"
                           \/ (o.next = "loop" /\ ToUint8(tSpeed + 1) = MAX_SPEED)
              c == IF tLoopEnds THEN Stop(o.c, STOP_MODE_KEEP) ELSE o.c
          IN  /\ Fields(c)
              /\ call' = [call EXCEPT !.log = c.log, !.args.n = tSpeed]
              /\ tMotorMovingCount' = o.count
              /\ tSpeed' = IF o.next = "loop" THEN ToUint8(tSpeed + 1) ELSE tSpeed
              /\ pc' = IF o.next = "loop" /\ ~tLoopEnds THEN "calibrate" ELSE "idle"
    /\ UNCHANGED <<feedback, nCalls>>

NextCalibrate ==
    \/ BeginCalibrate
    \/ SweepStep

SpecCalibrate == Init /\ [][NextCalibrate]_vars

\* calibrate begins with stop() and drives forward: the sweep is the same from
\* every mode, and the fair specification starts it from the released car
InitCalibrate == Init /\ CarDirectionOrBrakeMode = MOTOR_RELEASE

---------------------------------------------------------------------------
(* startRotate on its own: the first call after init(), with the start and *)
(* drive speeds the units may have been given.                             *)

TurnStartSpeeds == 0..255
TurnDriveSpeeds == {0, 80, 255}
\* <<StartSpeed, DriveSpeed>> of the left unit
TurnLeftSpeeds == {<<159, 120>>, <<160, 200>>}

InitTurn ==
    /\ feedback \in Feedbacks
    /\ CarDirectionOrBrakeMode \in Modes
    /\ rightCarMotor \in {[MotorInit EXCEPT !.StartSpeed = s, !.DriveSpeed = d]
                            : s \in TurnStartSpeeds, d \in TurnDriveSpeeds}
    /\ leftCarMotor \in {[MotorInit EXCEPT !.StartSpeed = e[1], !.DriveSpeed = e[2]]
                           : e \in TurnLeftSpeeds}
    /\ CarRequestedRotationDegrees = 0
    /\ CarRequestedDistanceMillimeter = 0
    /\ CarTurnAngleHalfDegreesFromIMU = 0
    /\ CarSpeedCmPerSecondFromIMU = 0
    /\ CarDistanceMillimeterFromIMU = 0
    /\ FactorDegreeToMillimeter = FactorDegreeToMillimeterDefault
    /\ MotorControlValuesHaveChanged = FALSE
    /\ call = [op |-> "init", args |-> NoArgs, entry |-> Self, ret |-> FALSE, log |-> << >>]
    /\ pc = "idle"
    /\ nCalls = 0
    /\ tSpeed = 0
    /\ tMotorMovingCount = 0

TurnOnce ==
    /\ pc = "idle" /\ call.op = "init"
    /\ \E a \in {-90, 90}, t \in TurnDirections, slow \in BOOLEAN :
          Commit(startRotate(Self, a, t, slow), "startRotate", Args(0, "", a, 0, t, slow))
    /\ UNCHANGED pc

NextTurn == TurnOnce

SpecTurn == InitTurn /\ [][NextTurn]_vars

---------------------------------------------------------------------------
(* A rotation polled without end: startRotate, then updateMotors as long   *)
(* as it returns true.                                                     *)

TickOn ==
    /\ pc = "idle"
    /\ \/ call.op = "startRotate"
       \/ call.op = "updateMotors" /\ call.ret
    /\ \E c \in updateMotors(Self) :
          /\ Fields(c)
          /\ call' = [op |-> "updateMotors", args |-> NoArgs, entry |-> Self,
                      ret |-> c.ret, log |-> c.log]
    /\ UNCHANGED <<feedback, pc, nCalls, tSpeed, tMotorMovingCount>>

NextTurnLoop ==
    \/ TurnOnce
    \/ TickOn

\* the caller repeats the call of updateMotors
SpecTurnLoop == Init /\ [][NextTurnLoop]_vars /\ WF_vars(TickOn)

---------------------------------------------------------------------------
(* changeSpeedCompensation on its own: the first call after init(), with   *)
(* the compensations the units may have and every int8_t change.           *)

CompensationValues == {0, 1, 5, 6, 100, 127}
CompensationChanges == -128..127

InitCompensation ==
    /\ feedback \in Feedbacks
    /\ CarDirectionOrBrakeMode \in Modes
    /\ rightCarMotor \in {[MotorInit EXCEPT !.SpeedCompensation = k] : k \in CompensationValues}
    /\ leftCarMotor \in {[MotorInit EXCEPT !.SpeedCompensation = k] : k \in CompensationValues}
    /\ CarRequestedRotationDegrees = 0
    /\ CarRequestedDistanceMillimeter = 0
    /\ CarTurnAngleHalfDegreesFromIMU = 0
    /\ CarSpeedCmPerSecondFromIMU = 0
    /\ CarDistanceMillimeterFromIMU = 0
    /\ FactorDegreeToMillimeter = FactorDegreeToMillimeterDefault
    /\ MotorControlValuesHaveChanged = FALSE
    /\ call = [op |-> "init", args |-> NoArgs, entry |-> Self, ret |-> FALSE, log |-> << >>]
    /\ pc = "idle"
    /\ nCalls = 0
    /\ tSpeed = 0
    /\ tMotorMovingCount = 0

ChangeOnce ==
    /\ pc = "idle" /\ call.op = "init"
    /\ \E k \in CompensationChanges :
          Commit(changeSpeedCompensation(Self, k), "changeSpeedCompensation",
                 Args(0, "", k, 0, "", FALSE))
    /\ UNCHANGED pc

NextCompensation == ChangeOnce

SpecCompensation == InitCompensation /\ [][NextCompensation]_vars

\* the loop runs: a started pass is completed
SpecCalibrateFair == InitCalibrate /\ [][NextCalibrate]_vars /\ WF_vars(SweepStep)

---------------------------------------------------------------------------
(* Properties.  Each is stated on the record of the last call: its         *)
(* arguments, the car at entry, the effects in order, the return value,    *)
(* and the car as the call left it.                                        *)

EventsOf(log, ev) == {i \in 1..Len(log) : log[i].ev = ev}
StopAt(log, i, u, m) == log[i] = Ev("stop", u, 0, m, 0)
ModeWriteAt(log, i, m) == log[i] = Ev("mode", "car", 0, m, 0)

IsDirectionRequest == call.op = "checkAndHandleDirectionChange"
EntryMaxSpeed == Max(call.entry.right.CurrentSpeed, call.entry.left.CurrentSpeed)

\* C1: a direction change requested while a unit's speed is nonzero: both
\* units are brake-stopped before CarDirectionOrBrakeMode takes the requested
\* value, the wait is half the higher of the two speeds at entry (so it never
\* decreases when that speed grows) and follows the stop, the call returns
\* true, and the mode is the requested one on return.
C1_StopBeforeDirectionChange ==
    (IsDirectionRequest /\ call.args.dir # call.entry.mode /\ EntryMaxSpeed > 0) =>
        /\ call.ret = TRUE
        /\ CarDirectionOrBrakeMode = call.args.dir
        /\ rightCarMotor.CurrentSpeed = 0 /\ leftCarMotor.CurrentSpeed = 0
        /\ \A k \in 1..Len(call.log) :
              ModeWriteAt(call.log, k, call.args.dir) =>
                  /\ \E i \in 1..(k - 1) : StopAt(call.log, i, "right", MOTOR_BRAKE)
                  /\ \E i \in 1..(k - 1) : StopAt(call.log, i, "left", MOTOR_BRAKE)
        /\ \E j \in 1..Len(call.log) :
              /\ EventsOf(call.log, "delay") = {j}
              /\ call.log[j].n = EntryMaxSpeed \div 2
              /\ \E i \in 1..(j - 1) : StopAt(call.log, i, "right", MOTOR_BRAKE)
              /\ \E i \in 1..(j - 1) : StopAt(call.log, i, "left", MOTOR_BRAKE)
              /\ ModeWriteAt(call.log, Len(call.log), call.args.dir) /\ j < Len(call.log)

\* C1 happens: a reversal requested while the two units run at different speeds
C1_Witness ==
    /\ IsDirectionRequest
    /\ call.entry.mode = DIRECTION_FORWARD /\ call.args.dir = DIRECTION_BACKWARD
    /\ call.entry.right.CurrentSpeed = 255 /\ call.entry.left.CurrentSpeed = 128
    /\ call.ret = TRUE
    /\ \E j \in 1..Len(call.log) : call.log[j].ev = "delay" /\ call.log[j].n = 127
    /\ CarDirectionOrBrakeMode = DIRECTION_BACKWARD

\* C2: a direction change requested while both units stand: no stop and no
\* delay, the only effect is the write of the requested mode, the units are
\* untouched and the call returns false.
C2_ImmediateChangeWhenStopped ==
    (IsDirectionRequest /\ call.args.dir # call.entry.mode /\ EntryMaxSpeed = 0) =>
        /\ call.ret = FALSE
        /\ CarDirectionOrBrakeMode = call.args.dir
        /\ call.log = <<Ev("mode", "car", 0, call.args.dir, 0)>>
        /\ rightCarMotor = call.entry.right /\ leftCarMotor = call.entry.left

C2_Witness ==
    /\ IsDirectionRequest
    /\ call.args.dir # call.entry.mode /\ EntryMaxSpeed = 0
    /\ call.entry.right.CurrentDirectionOrBrakeMode = DIRECTION_FORWARD
    /\ CarDirectionOrBrakeMode = DIRECTION_BACKWARD

\* C3: a request for the mode the car already has changes nothing, whatever
\* the speeds of the units: no effect, same mode, same units, returns false.
C3_SameModeIsNoOp ==
    (IsDirectionRequest /\ call.args.dir = call.entry.mode) =>
        /\ call.ret = FALSE
        /\ call.log = << >>
        /\ CarDirectionOrBrakeMode = call.entry.mode
        /\ rightCarMotor = call.entry.right /\ leftCarMotor = call.entry.left

C3_Witness ==
    /\ IsDirectionRequest
    /\ call.args.dir = call.entry.mode
    /\ call.entry.right.CurrentSpeed > 0 /\ call.entry.left.CurrentSpeed > 0
    /\ rightCarMotor.CurrentSpeed > 0

\* the methods that begin with checkAndHandleDirectionChange
ArbitratingOps ==
    {"checkAndHandleDirectionChange", "setSpeed", "setSpeedCompensated",
     "setSpeedCompensatedLeftRight", "startRampUp", "startRampUpToDriveSpeed",
     "startGoDistanceMillimeter"}

ModeWrites == EventsOf(call.log, "mode")

\* the write at k is the one that ends stop(): it follows the stop of the right
\* and of the left unit and carries the stop mode the right unit took
WrittenByStop(k) ==
    /\ k > 2
    /\ call.log[k - 2].ev = "stop" /\ call.log[k - 2].unit = "right"
    /\ call.log[k - 1].ev = "stop" /\ call.log[k - 1].unit = "left"
    /\ call.log[k].m = IF call.log[k - 2].m = STOP_MODE_KEEP
                       THEN call.entry.right.StopMode
                       ELSE call.log[k - 2].m

WrittenByArbitration(k) ==
    call.op \in ArbitratingOps /\ call.log[k].m = call.args.dir

WrittenByWaitUntilStopped(k) ==
    /\ call.op = "waitUntilStopped" /\ ~call.ret
    /\ k = Len(call.log)
    /\ call.log[k].m = rightCarMotor.CurrentDirectionOrBrakeMode

\* C4 as claimed: only the methods that arbitrate the direction change
\* CarDirectionOrBrakeMode; stop, waitUntilStopped and all others leave it.
C4_OnlyArbitrationChangesMode ==
    (call.op \notin ArbitratingOps) => CarDirectionOrBrakeMode = call.entry.mode

\* C4 amended: CarDirectionOrBrakeMode is written at three places only: in the
\* arbitration step (the requested mode), at the end of stop() (also when
\* updateMotors or the arbitration calls it) and at the end of
\* waitUntilStopped; the last two copy the right unit's mode.  A call that
\* reaches none of them leaves the mode as it was.
C4_ModeWrittenAtThreePlaces ==
    /\ \A k \in ModeWrites :
          WrittenByStop(k) \/ WrittenByArbitration(k) \/ WrittenByWaitUntilStopped(k)
    /\ ModeWrites = {} => CarDirectionOrBrakeMode = call.entry.mode
    /\ \A k \in ModeWrites :
          (\A j \in ModeWrites : j <= k) => CarDirectionOrBrakeMode = call.log[k].m
    /\ call.op = "stop" =>
          /\ ModeWrites = {3}
          /\ CarDirectionOrBrakeMode = rightCarMotor.CurrentDirectionOrBrakeMode
    /\ (call.op = "waitUntilStopped" /\ ~call.ret) =>
          /\ Len(call.log) \in ModeWrites
          /\ CarDirectionOrBrakeMode = rightCarMotor.CurrentDirectionOrBrakeMode

\* C4 happens: waitUntilStopped returns and leaves a mode other than the one at entry
C4_Witness ==
    /\ call.op = "waitUntilStopped" /\ ~call.ret
    /\ call.entry.mode = DIRECTION_FORWARD
    /\ CarDirectionOrBrakeMode = MOTOR_RELEASE
    /\ call.args.dir = "none"
    /\ nCalls = 2

\* C5 as claimed: the two units never both have a nonzero SpeedCompensation.
C5_NeverBothCompensated ==
    ~(rightCarMotor.SpeedCompensation # 0 /\ leftCarMotor.SpeedCompensation # 0)

\* C6 as claimed: in every state, for every d not above the compensation in
\* force, changeSpeedCompensation(d) followed by changeSpeedCompensation(-d)
\* gives both units the compensation they had.
C6_ChangeAndBackRestores ==
    \A d \in 1..6 :
        d <= Max(Abs(rightCarMotor.SpeedCompensation), Abs(leftCarMotor.SpeedCompensation)) =>
            \A e \in {d, -d} :
                LET c2 == changeSpeedCompensation(changeSpeedCompensation(Self, e), -e)
                IN  /\ c2.right.SpeedCompensation = rightCarMotor.SpeedCompensation
                    /\ c2.left.SpeedCompensation = leftCarMotor.SpeedCompensation

\* C7 as claimed: setSpeedCompensated(speed, direction, bias) commands the
\* unaffected unit with speed and the affected unit (left for bias >= 0, right
\* for bias < 0) with max(0, speed - |bias|).
C7_BiasedSideClampedAtZero ==
    call.op = "setSpeedCompensatedLeftRight" =>
        LET s == call.args.speed
            b == call.args.n
            affected == IF b >= 0 THEN "left" ELSE "right"
            other    == IF b >= 0 THEN "right" ELSE "left"
            lowered  == IF s - Abs(b) > 0 THEN s - Abs(b) ELSE 0
            cmds     == EventsOf(call.log, "setSpeedCompensated")
        IN  /\ Cardinality(cmds) = 2
            /\ \E i \in cmds : call.log[i] = Ev("setSpeedCompensated", other, s, call.args.dir, 0)
            /\ \E i \in cmds :
                  call.log[i] = Ev("setSpeedCompensated", affected, lowered, call.args.dir, 0)

IsUnitCommand(e) == e.ev \in {"startGoDistanceMillimeter", "setSpeedCompensated"}
UnitDirection(e) == <<e.unit, e.m>>
UnitDirectionDistance(e) == <<e.unit, e.m, e.d>>
MapSeq(f(_), q) == [i \in DOMAIN q |-> f(q[i])]

\* C8: startRotate splits the distance D of the turn by the turn direction:
\* forward gives the outer side D and the inner side 0, backward the outer side
\* 0 and the inner side D, in place floor(D/2) to both; the outer side is only
\* ever commanded forward and the inner side backward.  Without IMU both units
\* get their distance; with IMU a unit is commanded exactly if its distance is
\* not 0.
C8_TurnDistances ==
    call.op = "startRotate" =>
        LET a == call.args.n
            t == call.args.turn
            outer == RightMotorIfPositiveTurn(a)
            inner == LeftMotorIfPositiveTurn(a)
            D == RotationDistanceMillimeter(call.entry, a)
            dOuter == IF t = TURN_FORWARD THEN D ELSE IF t = TURN_BACKWARD THEN 0 ELSE D \div 2
            dInner == IF t = TURN_FORWARD THEN 0 ELSE IF t = TURN_BACKWARD THEN D ELSE D \div 2
            cmds == SelectSeq(call.log, IsUnitCommand)
        IN  IF UseIMU
            THEN MapSeq(UnitDirection, cmds) =
                    (IF dOuter > 0 THEN <<<<outer, DIRECTION_FORWARD>>>> ELSE << >>)
                    \o (IF dInner > 0 THEN <<<<inner, DIRECTION_BACKWARD>>>> ELSE << >>)
            ELSE MapSeq(UnitDirectionDistance, cmds) =
                    <<<<outer, DIRECTION_FORWARD, dOuter>>, <<inner, DIRECTION_BACKWARD, dInner>>>>

\* C8 happens: a turn in place over an odd distance
C8_Witness ==
    /\ call.op = "startRotate" /\ ~UseIMU
    /\ call.args.turn = TURN_IN_PLACE /\ call.args.n = 90
    /\ \E i \in 1..Len(call.log) : call.log[i].unit = "left" /\ call.log[i].d = 103

MirrorUnit(u) == IF u = "right" THEN "left" ELSE IF u = "left" THEN "right" ELSE u
MirrorEv(e) == [e EXCEPT !.unit = MirrorUnit(e.unit)]
\* the car with its two units exchanged
MirrorCar(c) == [c EXCEPT !.right = c.left, !.left = c.right, !.log = MapSeq(MirrorEv, c.log)]

\* C9: startRotate with a negative angle is the mirror image of startRotate
\* with the positive angle: the left unit gets what the right unit would get
\* (distance, direction forward, and the turn speed taken from the left unit's
\* own StartSpeed / DriveSpeed), the right unit what the left would get.  With
\* an angle >= 0 the right unit is the outer (forward) one and the left the
\* inner (backward) one, each with the turn speed from its own values.
C9_NegativeAngleSwapsSides ==
    call.op = "startRotate" =>
        LET a == call.args.n
            cmds == SelectSeq(call.log, IsUnitCommand)
        IN  /\ a < 0 =>
                LET p == startRotate(MirrorCar(call.entry), -a, call.args.turn, call.args.slow)
                IN  /\ call.log = MirrorCar(p).log
                    /\ rightCarMotor = p.left
                    /\ leftCarMotor = p.right
            /\ a >= 0 =>
                \A i \in 1..Len(cmds) :
                    /\ cmds[i].m = DIRECTION_FORWARD <=> cmds[i].unit = "right"
                    /\ cmds[i].m = DIRECTION_BACKWARD <=> cmds[i].unit = "left"
                    /\ cmds[i].n = TurnSpeed(Unit(call.entry, cmds[i].unit), call.args.slow)

\* C9 happens: a negative turn in place of two units with different speeds
C9_Witness ==
    /\ call.op = "startRotate" /\ call.args.n = -90 /\ call.args.turn = TURN_IN_PLACE
    /\ ~call.args.slow
    /\ call.entry.right.DriveSpeed = 80 /\ call.entry.left.DriveSpeed = 120
    /\ \E i \in 1..Len(call.log) :
          /\ call.log[i].unit = "left" /\ call.log[i].m = DIRECTION_FORWARD
          /\ call.log[i].n = 120
    /\ \E i \in 1..Len(call.log) :
          /\ call.log[i].unit = "right" /\ call.log[i].m = DIRECTION_BACKWARD
          /\ call.log[i].n = 80

\* C10: with IMU and a rotation pending at entry, an update that finds
\* |turn angle| + 2 >= |2 * requested degrees| brake-stops both units, clears
\* the request and returns false in that same call.
C10_RotationStopsAtTarget ==
    (/\ call.op \in {"updateMotors", "waitUntilStopped"}
     /\ UseIMU
     /\ call.entry.rot # 0
     /\ Abs(CarTurnAngleHalfDegreesFromIMU) + 2 >= Abs(call.entry.rot) * 2) =>
        /\ call.ret = FALSE
        /\ CarRequestedRotationDegrees = 0
        /\ rightCarMotor.CurrentSpeed = 0 /\ leftCarMotor.CurrentSpeed = 0
        /\ \E i \in 1..Len(call.log) : StopAt(call.log, i, "right", MOTOR_BRAKE)
        /\ \E i \in 1..Len(call.log) : StopAt(call.log, i, "left", MOTOR_BRAKE)
        /\ rightCarMotor.CurrentDirectionOrBrakeMode = MOTOR_BRAKE
        /\ leftCarMotor.CurrentDirectionOrBrakeMode = MOTOR_BRAKE

\* C10 happens: 90 degrees requested, 178 half degrees measured, the units running
C10_Witness ==
    /\ call.op = "updateMotors" /\ UseIMU
    /\ call.entry.rot = 90
    /\ call.entry.right.CurrentSpeed > 0
    /\ CarTurnAngleHalfDegreesFromIMU = 178
    /\ call.ret = FALSE /\ CarRequestedRotationDegrees = 0

---------------------------------------------------------------------------
(* The closed loop.                                                        *)

\* what the update compared: the cached IMU values after the refresh
MeasuredHalfDegrees == Abs(CarTurnAngleHalfDegreesFromIMU)
TargetHalfDegrees == Abs(call.entry.rot) * 2
IsRotationTick == call.op = "updateMotors" /\ UseIMU /\ call.entry.rot # 0

\* C11 as claimed: with IMU, a rotation pending and measured + 2 < target, the
\* update does not stop, keeps the rotation pending and returns true; with
\* measured + 20 >= target it commands each unit with that unit's start speed
\* and nothing else, otherwise it commands nothing and changes no unit.
C11_SlowDownToStartSpeed ==
    (IsRotationTick /\ MeasuredHalfDegrees + 2 < TargetHalfDegrees) =>
        /\ call.ret = TRUE
        /\ CarRequestedRotationDegrees = call.entry.rot
        /\ EventsOf(call.log, "stop") = {}
        /\ IF MeasuredHalfDegrees + 20 >= TargetHalfDegrees
           THEN call.log =
                  << Ev("changeSpeedCompensated", "right", call.entry.right.StartSpeed, "", 0),
                     Ev("changeSpeedCompensated", "left", call.entry.left.StartSpeed, "", 0) >>
           ELSE /\ call.log = << >>
                /\ rightCarMotor = call.entry.right
                /\ leftCarMotor = call.entry.left

\* C11 amended: as claimed, but in the slow down window both units are
\* commanded with the start speed of the right unit.
C11_SlowDownToRightStartSpeed ==
    (IsRotationTick /\ MeasuredHalfDegrees + 2 < TargetHalfDegrees) =>
        /\ call.ret = TRUE
        /\ CarRequestedRotationDegrees = call.entry.rot
        /\ EventsOf(call.log, "stop") = {}
        /\ IF MeasuredHalfDegrees + 20 >= TargetHalfDegrees
           THEN call.log =
                  << Ev("changeSpeedCompensated", "right", call.entry.right.StartSpeed, "", 0),
                     Ev("changeSpeedCompensated", "left", call.entry.right.StartSpeed, "", 0) >>
           ELSE /\ call.log = << >>
                /\ rightCarMotor = call.entry.right
                /\ leftCarMotor = call.entry.left

\* C11 happens: 90 degrees requested, 160 half degrees measured, the right
\* unit running above its start speed: it is slowed down, the car keeps turning
C11_Witness ==
    /\ IsRotationTick
    /\ call.entry.rot = 90
    /\ CarTurnAngleHalfDegreesFromIMU = 160
    /\ call.entry.right.CurrentSpeed > call.entry.right.StartSpeed
    /\ rightCarMotor.CurrentSpeed = call.entry.right.StartSpeed
    /\ call.ret = TRUE /\ CarRequestedRotationDegrees = 90

IsDistanceTick ==
    /\ call.op = "updateMotors" /\ UseIMU /\ ~UseEncoder
    /\ call.entry.rot = 0 /\ call.entry.dist # 0
BrakingSum == ToUint16(CarDistanceMillimeterFromIMU + getBrakingDistanceMillimeter(Self))
RampDownTriggered == EventsOf(call.log, "startRampDown") # {}

\* C12 as claimed: with IMU only, a distance pending and the units not in ramp
\* down, the update starts the ramp down exactly when distance + braking
\* distance >= target.
C12_RampDownExactlyAtSum ==
    (IsDistanceTick /\ call.entry.right.MotorRampState # MOTOR_STATE_RAMP_DOWN) =>
        (RampDownTriggered <=> BrakingSum >= call.entry.dist)

\* C12 amended: the update starts the ramp down of both units exactly when the
\* right unit is ramping up or at drive speed, a unit is running, the distance
\* is below the target and distance + braking distance >= target.  With the
\* distance at or above the target (right unit ramping or at drive speed) it
\* brake-stops instead and clears the target.  In no other case does it
\* start a ramp down.
C12_RampDownAtBrakingDistance ==
    IsDistanceTick =>
        /\ RampDownTriggered <=>
              /\ call.entry.right.MotorRampState \in
                    {MOTOR_STATE_RAMP_UP, MOTOR_STATE_DRIVE_SPEED}
              /\ ~isStopped(call.entry)
              /\ CarDistanceMillimeterFromIMU < call.entry.dist
              /\ BrakingSum >= call.entry.dist
        /\ RampDownTriggered =>
              /\ \E i \in 1..Len(call.log) : call.log[i] = Ev("startRampDown", "right", 0, "", 0)
              /\ \E i \in 1..Len(call.log) : call.log[i] = Ev("startRampDown", "left", 0, "", 0)
              /\ EventsOf(call.log, "stop") = {}
              /\ CarRequestedDistanceMillimeter = call.entry.dist
        /\ (/\ call.entry.right.MotorRampState \in
                  {MOTOR_STATE_RAMP_UP, MOTOR_STATE_DRIVE_SPEED, MOTOR_STATE_RAMP_DOWN}
            /\ CarDistanceMillimeterFromIMU >= call.entry.dist) =>
              /\ StopAt(call.log, 1, "right", MOTOR_BRAKE)
              /\ StopAt(call.log, 2, "left", MOTOR_BRAKE)
              /\ CarRequestedDistanceMillimeter = 0
              /\ call.ret = FALSE

\* C12 happens: 500 mm requested, 460 mm measured at 40 cm/s (braking distance
\* 45 mm), the right unit ramping up: the ramp down starts
C12_Witness ==
    /\ IsDistanceTick
    /\ call.entry.dist = 500
    /\ call.entry.right.MotorRampState = MOTOR_STATE_RAMP_UP
    /\ CarDistanceMillimeterFromIMU = 460 /\ CarSpeedCmPerSecondFromIMU = 40
    /\ RampDownTriggered
    /\ rightCarMotor.MotorRampState = MOTOR_STATE_RAMP_DOWN
    /\ call.ret = TRUE

\* C16 as claimed: a pass of waitUntilStopped whose callback stopped both
\* units finds the car stopped and ends the wait.
C16_CallbackStopEndsWait ==
    (call.op = "waitUntilStopped" /\ call.args.dir = "stop") =>
        (call.ret = FALSE /\ pc = "idle")

\* C19 as claimed: with IMU, whenever the update returns false the requested
\* distance and the requested rotation are both 0.
C19_CompletionClearsTargets ==
    (call.op \in {"updateMotors", "waitUntilStopped"} /\ UseIMU /\ call.ret = FALSE) =>
        (CarRequestedDistanceMillimeter = 0 /\ CarRequestedRotationDegrees = 0)

\* C20 as claimed: with IMU, every update calls updateMotor of both units, and
\* returns true exactly if one of them returned true.
C20_EveryTickAdvancesBothUnits ==
    (call.op = "updateMotors" /\ UseIMU) =>
        LET updates == EventsOf(call.log, "updateMotor")
        IN  /\ \E i \in updates : call.log[i].unit = "right"
            /\ \E i \in updates : call.log[i].unit = "left"
            /\ call.ret <=> (\E i \in updates : call.log[i].n = 1)

---------------------------------------------------------------------------
(* Direct speed control.                                                   *)

DirectSetSpeedCommands(s, d) ==
    << Ev("setSpeed", "right", s, d, 0), Ev("setSpeed", "left", s, d, 0) >>

---------------------------------------------------------------------------
(* Calibration.                                                            *)

IsCalibrate == call.op = "calibrate"
CarUnits == {"right", "left"}
UnitEvents(log, ev, u) == {i \in 1..Len(log) : log[i].ev = ev /\ log[i].unit = u}
BothLatched == rightCarMotor.StartSpeed # 0 /\ leftCarMotor.StartSpeed # 0

\* calibrate returned because the callback stopped the car: the last effects
\* are the callback's stop
CalibrateCancelled ==
    /\ IsCalibrate /\ pc = "idle"
    /\ Len(call.log) >= 4
    /\ call.log[Len(call.log) - 3].ev = "aLoopCallback"

\* one pass of the sweep, seen from unit u: m is the unit before the pass, n after
LatchStep(u) ==
    LET m == Unit(Self, u)
        n == IF u = "right" THEN rightCarMotor' ELSE leftCarMotor'
        cmds == UnitEvents(call'.log, "setSpeed", u)
        latches == UnitEvents(call'.log, "setStartSpeed", u)
    IN  /\ m.StartSpeed # 0 =>
              /\ n.StartSpeed = m.StartSpeed
              /\ cmds = {} /\ latches = {}
        /\ m.StartSpeed = 0 =>
              /\ m.EncoderCount <= 6
              /\ Cardinality(cmds) = 1
              /\ \A i \in cmds : call'.log[i] = Ev("setSpeed", u, tSpeed, DIRECTION_FORWARD, 0)
              /\ IF n.EncoderCount > 6 /\ ~CalibrateCancelled'
                 THEN /\ n.StartSpeed = tSpeed
                      /\ Cardinality(latches) = 1
                      /\ \A i \in latches : call'.log[i].n = tSpeed /\ \A j \in cmds : j < i
                 ELSE n.StartSpeed = 0 /\ latches = {}

\* C14: calibrate with encoders: a unit without start speed is commanded the
\* sweep speed of the pass, and takes that speed as its start speed at the end
\* of the first pass that finds its encoder count above 6 (before the pass the
\* count is at most 6); a unit that has a start speed is commanded no further
\* sweep speed and keeps its start speed.
C14_StartSpeedLatchedOnce ==
    [][(pc = "calibrate" /\ UseEncoder) => \A u \in CarUnits : LatchStep(u)]_vars

\* C14 happens: the right wheel crossed 6 ticks at sweep speed 27, the left at 30
C14_Witness ==
    /\ IsCalibrate /\ UseEncoder /\ pc = "idle"
    /\ rightCarMotor.StartSpeed = 27 /\ rightCarMotor.EncoderCount = 7
    /\ leftCarMotor.StartSpeed = 30
    /\ tSpeed = 30
    /\ ~CalibrateCancelled

\* the effects of the step
NewEffects == call'.log

\* a pass commands the sweep speed only, and the next pass has the next speed
SweepStepInOrder ==
    /\ tSpeed \in CalibrateFirstSpeed..(MAX_SPEED - 1)
    /\ \A i \in 1..Len(NewEffects) : NewEffects[i].ev = "setSpeed" => NewEffects[i].n = tSpeed
    /\ pc' = "calibrate" => tSpeed' = tSpeed + 1

\* the sweep goes on while a unit is without start speed and ends when both
\* have one (encoders), when the car moved (IMU), at MAX_SPEED, or when the
\* callback stopped the car; it ends with both units stopped
SweepEndsWhenDone ==
    /\ pc = "calibrate" =>
          /\ tSpeed \in CalibrateFirstSpeed..(MAX_SPEED - 1)
          /\ ~BothLatched
          /\ ~UseEncoder => (rightCarMotor.StartSpeed = 0 /\ leftCarMotor.StartSpeed = 0)
          /\ tSpeed = IF call.args.n = 0 THEN CalibrateFirstSpeed ELSE call.args.n + 1
    /\ pc = "idle" =>
          /\ isStopped(Self)
          /\ \/ CalibrateCancelled
             \/ BothLatched
             \/ tSpeed = MAX_SPEED

\* C15: the sweep of calibrate ends: it commands the speeds 20, 21, ... one per
\* pass, none above MAX_SPEED, and it ends at the first pass after which both
\* units have a start speed, else when the speed reaches MAX_SPEED.
C15_SweepTerminates ==
    /\ [][pc = "calibrate" => SweepStepInOrder]_vars
    /\ [](IsCalibrate => SweepEndsWhenDone)
    /\ (pc = "calibrate") ~> (pc = "idle")

\* C15 happens: no wheel ever moved, the sweep ran up to MAX_SPEED and ended
C15_Witness ==
    /\ IsCalibrate /\ pc = "idle"
    /\ tSpeed = MAX_SPEED
    /\ ~CalibrateCancelled
    /\ call.log[Len(call.log) - 3] = Ev("delay", "car", CalibrateEncoderDelay, "", 0)
    /\ call.log[Len(call.log) - 4] = Ev("setSpeed", "left", MAX_SPEED - 1, DIRECTION_FORWARD, 0)

\* C18 as claimed: when the sweep ran to its end, a unit that was never found
\* moving has the start speed it had when calibrate was called.
C18_UnmovedUnitKeepsStartSpeed ==
    (IsCalibrate /\ pc = "idle" /\ ~CalibrateCancelled /\ tSpeed = MAX_SPEED) =>
        \A u \in CarUnits :
            Unit(Self, u).EncoderCount <= CalibrateEncoderCount =>
                Unit(Self, u).StartSpeed = Unit(call.entry, u).StartSpeed

---------------------------------------------------------------------------
(* The speeds of a rotation.                                               *)

\* the commands startRotate gave to unit u
TurnCommands(u) ==
    {i \in 1..Len(call.log) :
        /\ call.log[i].ev \in {"setSpeedCompensated", "startGoDistanceMillimeter"}
        /\ call.log[i].unit = u}

\* the claimed turn speed of a unit, without any cut to 8 bit
ClaimedTurnSpeed(m, aUseSlowSpeed) ==
    IF aUseSlowSpeed /\ m.StartSpeed < 160
    THEN m.StartSpeed + (m.StartSpeed \div 2)
    ELSE m.DriveSpeed

\* C21: startRotate commands a unit with start speed + start speed / 2, not
\* wrapped and at most 255, if the slow speed is requested and the unit's start
\* speed is below 160, and with the unit's drive speed otherwise; each unit by
\* its own values.
C21_TurnSpeedWithoutWrap ==
    call.op = "startRotate" =>
        \A u \in {"right", "left"} :
            LET tClaimed == ClaimedTurnSpeed(Unit(call.entry, u), call.args.slow)
            IN  /\ tClaimed \in 0..255
                /\ \A i \in TurnCommands(u) : call.log[i].n = tClaimed

\* C21 happens: slow speed with the highest start speed below 160 on the
\* right, and 160 on the left: 238 for the right unit, drive speed for the left
C21_Witness ==
    /\ call.op = "startRotate" /\ call.args.slow
    /\ call.args.turn = TURN_IN_PLACE /\ ~UseIMU
    /\ call.entry.right.StartSpeed = 159 /\ call.entry.left.StartSpeed = 160
    /\ \E i \in TurnCommands("right") : call.log[i].n = 238
    /\ \E i \in TurnCommands("left") : call.log[i].n = 200

\* a unit at rest
UnitAtRest(m) == m.CurrentSpeed = 0 /\ m.MotorRampState = MOTOR_STATE_STOPPED
OtherUnit(u) == IF u = "right" THEN "left" ELSE "right"

\* the commands of the call that give unit u a speed above 0
SpeedCommands(u) ==
    {i \in 1..Len(call.log) :
        /\ call.log[i].unit = u
        /\ call.log[i].n > 0
        /\ \/ call.log[i].ev \in {"setSpeed", "setSpeedCompensated",
                                   "changeSpeedCompensated", "startRampUp"}
           \/ call.log[i].ev = "startGoDistanceMillimeter" /\ call.log[i].d > 0}

\* the inner unit of a forward turn: tLeftMotorIfPositiveTurn
InnerUnit(aRotationDegrees) == LeftMotorIfPositiveTurn(aRotationDegrees)

\* C22 as claimed: startRotate with TURN_FORWARD on a car at rest leaves the
\* inner unit at rest, and while the turn goes on (one unit at rest, the other
\* running, under IMU the rotation pending) no update gives the unit at rest a
\* speed above 0.
C22_InnerSideStaysStopped ==
    /\ (/\ call.op = "startRotate" /\ call.args.turn = TURN_FORWARD
        /\ UnitAtRest(call.entry.right) /\ UnitAtRest(call.entry.left)) =>
          /\ UnitAtRest(Unit(Self, InnerUnit(call.args.n)))
          /\ SpeedCommands(InnerUnit(call.args.n)) = {}
    /\ (call.op = "updateMotors" /\ (UseIMU => call.entry.rot # 0)) =>
          \A u \in {"right", "left"} :
              (/\ UnitAtRest(Unit(call.entry, u))
               /\ ~UnitAtRest(Unit(call.entry, OtherUnit(u)))) =>
                  /\ Unit(Self, u).CurrentSpeed = 0
                  /\ SpeedCommands(u) = {}

---------------------------------------------------------------------------
(* Calibration stopped by the callback.                                    *)

\* the places in the effects where the callback stopped both units
CallbackStops(log) ==
    {i \in 1..Len(log) :
        /\ log[i].ev = "aLoopCallback"
        /\ i + 2 <= Len(log)
        /\ log[i + 1].ev = "stop" /\ log[i + 1].unit = "right"
        /\ log[i + 2].ev = "stop" /\ log[i + 2].unit = "left"}

\* C23: a pass of calibrate in which the callback stopped both units ends the
\* call there: the callback's stop is the last effect (no delay, no command, no
\* setStartSpeed, no final stop after it), the start speeds and the sweep
\* speed are as before the pass, and both units are at speed 0.
C23_StoppedCalibrateReturns ==
    [][(pc = "calibrate" /\ CallbackStops(call'.log) # {}) =>
          /\ pc' = "idle"
          /\ \A i \in CallbackStops(call'.log) :
                /\ Len(call'.log) = i + 3
                /\ call'.log[i + 3].ev = "mode"
          /\ \A i \in 1..Len(call'.log) : call'.log[i].ev # "setStartSpeed"
          /\ rightCarMotor'.StartSpeed = rightCarMotor.StartSpeed
          /\ leftCarMotor'.StartSpeed = leftCarMotor.StartSpeed
          /\ rightCarMotor'.CurrentSpeed = 0 /\ leftCarMotor'.CurrentSpeed = 0
          /\ tSpeed' = tSpeed /\ tMotorMovingCount' = tMotorMovingCount]_vars

\* C23 happens: the right unit has its start speed from sweep speed 27, the
\* callback stops the car at 28; calibrate has returned, the left unit
\* without start speed
C23_Witness ==
    /\ IsCalibrate /\ pc = "idle" /\ UseEncoder
    /\ CallbackStops(call.log) # {}
    /\ tSpeed = 28
    /\ rightCarMotor.StartSpeed = 27 /\ leftCarMotor.StartSpeed = 0
    /\ rightCarMotor.CurrentSpeed = 0 /\ leftCarMotor.CurrentSpeed = 0

---------------------------------------------------------------------------
(* The writes of CarDirectionOrBrakeMode outside the arbitration.          *)

\* the calls that write CarDirectionOrBrakeMode without the arbitration step
IsStopOrWait == call.op \in {"stop", "waitUntilStopped", "updateMotors"}

---------------------------------------------------------------------------
(* A rotation and a distance pending together.                             *)

IsRotationTickWithDistance == IsRotationTick /\ call.entry.dist # 0

\* C25: with IMU, an update with a rotation pending leaves the requested
\* distance as it is and starts no ramp down; it stops the car only if the
\* angle is within the overrun of the requested angle, whatever the distance
\* measured, and commands nothing else but the slow down of the rotation.
C25_RotationBeforeDistance ==
    IsRotationTickWithDistance =>
        /\ CarRequestedDistanceMillimeter = call.entry.dist
        /\ EventsOf(call.log, "startRampDown") = {}
        /\ EventsOf(call.log, "updateMotor") = {}
        /\ EventsOf(call.log, "stop") # {} <=>
              MeasuredHalfDegrees + TURN_OVERRUN_HALF_ANGLE >= TargetHalfDegrees
        /\ \A i \in 1..Len(call.log) :
              call.log[i].ev \in {"stop", "mode", "changeSpeedCompensated"}

\* C25 happens: 500 mm and then 90 degrees requested; the update finds 460 mm
\* at 40 cm/s, where the distance alone would begin the ramp down, and the
\* angle far from the target: nothing is commanded, the distance stays
C25_Witness ==
    /\ IsRotationTickWithDistance
    /\ ~UseEncoder
    /\ call.entry.rot = 90 /\ call.entry.dist = 500
    /\ call.entry.right.MotorRampState = MOTOR_STATE_DRIVE_SPEED
    /\ CarDistanceMillimeterFromIMU = 460 /\ CarSpeedCmPerSecondFromIMU = 40
    /\ CarTurnAngleHalfDegreesFromIMU = 0
    /\ call.log = << >>
    /\ CarRequestedDistanceMillimeter = 500
    /\ call.ret = TRUE

---------------------------------------------------------------------------
(* The end of a rotation that does not reach its angle.                    *)

\* C26 as claimed: with IMU only and a rotation pending, once an update has
\* measured the dummy distance of the rotation the repeated updates lead to
\* one that returns false, also when the angle stays away from the requested
\* one.
C26_RotationEndsByDistance ==
    (/\ feedback = "imu" /\ call.op = "updateMotors" /\ call.entry.rot # 0
     /\ CarDistanceMillimeterFromIMU >= IMURotationDistanceMillimeter) ~>
        (call.op = "updateMotors" /\ ~call.ret)

---------------------------------------------------------------------------
(* The change of the speed compensation.                                   *)

IsCompensationChange == call.op = "changeSpeedCompensation"
CompensationDelta == call.args.n
RightBefore == call.entry.right.SpeedCompensation
LeftBefore == call.entry.left.SpeedCompensation
RightAfter == rightCarMotor.SpeedCompensation
LeftAfter == leftCarMotor.SpeedCompensation

\* the change and its result fit the 8 bit of the parameter and of the field
CompensationFits ==
    /\ CompensationDelta # -128
    /\ IF CompensationDelta > 0
       THEN LeftBefore >= CompensationDelta \/ RightBefore + CompensationDelta <= 127
       ELSE RightBefore >= -CompensationDelta \/ LeftBefore - CompensationDelta <= 127

\* C27: changeSpeedCompensation(delta) without overflow changes right minus
\* left compensation by exactly delta and sets MotorControlValuesHaveChanged.
\* For delta > 0 it takes delta from the left unit if that has at least delta,
\* otherwise adds it to the right unit; for delta < 0 the same with the units
\* exchanged and -delta; the other unit keeps its value, and nothing else of
\* the units changes.
C27_CompensationChangesDifferential ==
    (IsCompensationChange /\ CompensationFits) =>
        /\ (RightAfter - LeftAfter) - (RightBefore - LeftBefore) = CompensationDelta
        /\ MotorControlValuesHaveChanged
        /\ CompensationDelta > 0 =>
              IF LeftBefore >= CompensationDelta
              THEN LeftAfter = LeftBefore - CompensationDelta /\ RightAfter = RightBefore
              ELSE RightAfter = RightBefore + CompensationDelta /\ LeftAfter = LeftBefore
        /\ CompensationDelta < 0 =>
              IF RightBefore >= -CompensationDelta
              THEN RightAfter = RightBefore + CompensationDelta /\ LeftAfter = LeftBefore
              ELSE LeftAfter = LeftBefore - CompensationDelta /\ RightAfter = RightBefore
        /\ CompensationDelta = 0 => (RightAfter = RightBefore /\ LeftAfter = LeftBefore)
        /\ rightCarMotor = [call.entry.right EXCEPT !.SpeedCompensation = RightAfter]
        /\ leftCarMotor = [call.entry.left EXCEPT !.SpeedCompensation = LeftAfter]

\* C27 happens: right 5, left 6 and a change of 6: the left unit gives the 6
C27_Witness ==
    /\ IsCompensationChange /\ CompensationFits
    /\ CompensationDelta = 6
    /\ RightBefore = 5 /\ LeftBefore = 6
    /\ RightAfter = 5 /\ LeftAfter = 0
    /\ MotorControlValuesHaveChanged

=============================================================================
